---- MODULE Spec2Model ----
(***************************************************************************)
(* Position-based-dynamics soft body core (src/src/lib.rs, module `core`). *)
(*                                                                         *)
(* Numbers.  An f64 is modelled as a rational <<n, d>> in lowest terms     *)
(* with d > 0.  +, -, * and / give the exact result when it is             *)
(* representable (denominator at most DenMax, numerator at most NumMax)    *)
(* and a nearby dyadic number otherwise; sqrt is exact on squares of       *)
(* rationals and otherwise rounded to a multiple of 1/SqrtGrid.  What the  *)
(* model confirms about equalities of reals is confirmed for this          *)
(* arithmetic, in which a computation that stays representable has no      *)
(* rounding error.                                                         *)
(*                                                                         *)
(* Indices are 0-based as in the source; the k-th element of a Vec is      *)
(* element k+1 of the sequence that models it.  step() is cut into its     *)
(* loop bodies, which pc sequences; no other call interleaves with them.   *)
(***************************************************************************)
EXTENDS Integers, Sequences, FiniteSets, TLC

\* ------------------------------------------------------------------ f64
Abs(n) == IF n < 0 THEN -n ELSE n

RECURSIVE Gcd(_, _)
Gcd(a, b) == IF b = 0 THEN a ELSE Gcd(b, a % b)

\* the precision of an f64: a result is kept exactly when its denominator is
\* at most DenMax and its numerator at most NumMax, and is otherwise rounded
\* to the nearest multiple of 1/g, g the largest power of two that fits
DenMax == 16384
NumMax == 1073741824
\* operands too long to multiply exactly are first cut to multiples of 1/CoarseGrid
CoarseGrid == 128

\* n/d in lowest terms with a positive denominator, g their gcd
Lowest(n, d, g) ==
    IF d < 0 THEN <<(0 - n) \div g, (0 - d) \div g>> ELSE <<n \div g, d \div g>>
Norm(n, d) == IF n = 0 THEN <<0, 1>> ELSE Lowest(n, d, Gcd(Abs(n), Abs(d)))

\* the largest power of two g <= top with m * g <= NumMax, at least 1
RECURSIVE GridFor(_, _)
GridFor(m, g) == IF g > 1 /\ m > NumMax \div g THEN GridFor(m, g \div 2) ELSE g

\* q + rr/dd rounded to the nearest multiple of 1/g
RoundAt(q, rr, dd, g) == Norm(q * g + ((rr * g + (dd \div 2)) \div dd), g)

\* n/d (in lowest terms) rounded to a multiple of 1/g for the largest power
\* of two g <= top that fits; a long remainder is first shortened
RoundTo(e, top) ==
    RoundAt(e[1] \div e[2],
            (e[1] % e[2]) \div ((e[2] \div 65536) + 1),
            e[2] \div ((e[2] \div 65536) + 1),
            GridFor(Abs(e[1] \div e[2]) + 1, top))

\* the f64 that the exact result e is stored as
Stored(e) == IF e[2] <= DenMax /\ Abs(e[1]) <= NumMax THEN e ELSE RoundTo(e, DenMax)
Rep(n, d) == Stored(Norm(n, d))

Q(n) == <<n, 1>>
Zero == <<0, 1>>
One == <<1, 1>>

Neg(a) == <<0 - a[1], a[2]>>

\* the two operands of + or *: as they are when the exact result fits, and
\* otherwise cut to multiples of 1/grid
Operands(a, b, fits, grid) ==
    IF fits THEN <<a, b>> ELSE [i \in 1..2 |-> RoundTo(<<a, b>>[i], grid)]

\* a + b, g the gcd of the denominators
AddOver(a, b, g) ==
    Rep(a[1] * (b[2] \div g) + b[1] * (a[2] \div g), (a[2] \div g) * b[2])
AddExact(a, b) == AddOver(a, b, Gcd(a[2], b[2]))
AddFits(a, b) == (a[2] \div Gcd(a[2], b[2])) <= DenMax \div b[2]
AddOf(ab) == AddExact(ab[1], ab[2])
Add(a, b) ==
    IF a[1] = 0 THEN b
    ELSE IF b[1] = 0 THEN a
    ELSE AddOf(Operands(a, b, AddFits(a, b), DenMax))
Sub(a, b) == Add(a, Neg(b))

\* a * b, g1 and g2 the gcds of each numerator with the other denominator
FitsOver(a, b, g1, g2) ==
    /\ Abs(a[1] \div g1) <= NumMax \div Abs(b[1] \div g2)
    /\ (a[2] \div g2) <= NumMax \div (b[2] \div g1)
Fits(a, b) == FitsOver(a, b, Gcd(Abs(a[1]), b[2]), Gcd(Abs(b[1]), a[2]))
MulOver(a, b, g1, g2) ==
    Rep((a[1] \div g1) * (b[1] \div g2), (a[2] \div g2) * (b[2] \div g1))
MulExact(a, b) == MulOver(a, b, Gcd(Abs(a[1]), b[2]), Gcd(Abs(b[1]), a[2]))
MulOf(ab) == MulExact(ab[1], ab[2])
Mul(a, b) ==
    IF a[1] = 0 \/ b[1] = 0 THEN Zero
    ELSE MulOf(Operands(a, b, Fits(a, b), CoarseGrid))
\* a / b; the divisor is never zero where the model divides
Div(a, b) == Mul(a, Norm(b[2], b[1]))

Lt(a, b) ==
    IF a[1] \div a[2] # b[1] \div b[2] THEN a[1] \div a[2] < b[1] \div b[2]
    ELSE (a[1] % a[2]) * b[2] < (b[1] % b[2]) * a[2]
Gt(a, b) == Lt(b, a)
Le(a, b) == ~Lt(b, a)
Ge(a, b) == ~Lt(a, b)
\* f64::max / f64::min
FMax(a, b) == IF Lt(a, b) THEN b ELSE a
FMin(a, b) == IF Lt(b, a) THEN b ELSE a

\* f64::EPSILON, scaled to the precision of the model's numbers
EPSILON == <<1, 256>>

\* floor of the square root of a natural number
RECURSIVE ISqrtIn(_, _, _)
ISqrtIn(n, lo, hi) ==
    IF lo >= hi THEN lo
    ELSE IF ((lo + hi + 1) \div 2) * ((lo + hi + 1) \div 2) <= n
    THEN ISqrtIn(n, (lo + hi + 1) \div 2, hi)
    ELSE ISqrtIn(n, lo, ((lo + hi + 1) \div 2) - 1)
ISqrt(n) == ISqrtIn(n, 0, IF n < 46340 THEN n ELSE 46340)

IsSquare(n) == ISqrt(n) * ISqrt(n) = n

\* sqrt rounds an irrational root to a multiple of 1/SqrtGrid
SqrtGrid == 64

\* the rounded root of c, whose numerator is short enough to scale
SqrtOf(c) ==
    IF c[1] > 262144
    THEN Norm(ISqrt((c[1] \div c[2]) * SqrtGrid * SqrtGrid), SqrtGrid)
    ELSE Norm(ISqrt((c[1] * SqrtGrid * SqrtGrid) \div c[2]), SqrtGrid)

\* f64::sqrt of a non-negative number: exact on squares of rationals
Sqrt(a) ==
    IF IsSquare(a[1]) /\ IsSquare(a[2]) THEN <<ISqrt(a[1]), ISqrt(a[2])>>
    ELSE SqrtOf(IF a[1] > 262144 THEN RoundTo(a, CoarseGrid) ELSE a)

\* ----------------------------------------------------------------- Vec2
Vec2(x, y) == [x |-> x, y |-> y]
VZero == Vec2(Zero, Zero)
VAdd(a, b) == Vec2(Add(a.x, b.x), Add(a.y, b.y))
VSub(a, b) == Vec2(Sub(a.x, b.x), Sub(a.y, b.y))
VScale(a, s) == Vec2(Mul(a.x, s), Mul(a.y, s))
length_squared(v) == Add(Mul(v.x, v.x), Mul(v.y, v.y))
\* f64::hypot: with one argument zero it is the other's absolute value, as
\* is sqrt(x*x + 0.0) in binary floating point
hypot(x, y) ==
    IF x = Zero THEN <<Abs(y[1]), y[2]>>
    ELSE IF y = Zero THEN <<Abs(x[1]), x[2]>>
    ELSE Sqrt(Add(Mul(x, x), Mul(y, y)))
length(v) == hypot(v.x, v.y)
\* `if len > f64::EPSILON { *self * (1.0 / len) } else { zero }`
\* variant: a vector shorter than epsilon normalised to the x axis
normalize_by_to_axis(v, len) ==
    IF Gt(len, EPSILON) THEN VScale(v, Div(One, len)) ELSE Vec2(One, Zero)

normalize_by(v, len) == IF Gt(len, EPSILON) THEN VScale(v, Div(One, len)) ELSE VZero
normalize(v) == normalize_by(v, length(v))
dot(a, b) == Add(Mul(a.x, b.x), Mul(a.y, b.y))
cross(a, b) == Sub(Mul(a.x, b.y), Mul(a.y, b.x))

\* ----------------------------------------------------------------- Mat2
Mat2(c1, c2) == [c1 |-> c1, c2 |-> c2]
MIdentity == Mat2(Vec2(One, Zero), Vec2(Zero, One))
MZero == Mat2(VZero, VZero)
mul_vec(m, v) ==
    Vec2(Add(Mul(m.c1.x, v.x), Mul(m.c2.x, v.y)),
         Add(Mul(m.c1.y, v.x), Mul(m.c2.y, v.y)))

\* the branch `len_x > len_y`
polar_x(x, inv_len_x) ==
    Mat2(Vec2(Mul(x.x, inv_len_x), Mul(x.y, inv_len_x)),
         Vec2(Mul(Neg(x.y), inv_len_x), Mul(x.x, inv_len_x)))
\* the branch `len_y > f64::EPSILON`
polar_y(y, inv_len_y) ==
    Mat2(Vec2(Mul(y.x, inv_len_y), Mul(y.y, inv_len_y)),
         Vec2(Mul(y.y, inv_len_y), Mul(Neg(y.x), inv_len_y)))
polar_branch(x, y, len_x, len_y) ==
    IF Gt(len_x, len_y) THEN polar_x(x, Div(One, len_x))
    ELSE IF Gt(len_y, EPSILON) THEN polar_y(y, Div(One, len_y))
    ELSE MIdentity
polar_of(x, y) == polar_branch(x, y, length(x), length(y))
polar_decomposition(m) ==
    polar_of(Vec2(Add(m.c1.x, m.c2.y), Sub(m.c1.y, m.c2.x)),
             Vec2(Sub(m.c1.x, m.c2.y), Add(m.c1.y, m.c2.x)))

\* ------------------------------------------------------------- Particle
\* variant: prev_pos left at the origin
Particle_new_prev_origin(x, y) ==
    [pos |-> Vec2(x, y), prev_pos |-> VZero, vel |-> VZero,
     inv_mass |-> One, radius |-> Q(8), is_fixed |-> FALSE]

\* Particle::new, with the fields add_soft_body then assigns
Particle_new(x, y) ==
    [pos |-> Vec2(x, y), prev_pos |-> Vec2(x, y), vel |-> VZero,
     inv_mass |-> One, radius |-> Q(8), is_fixed |-> FALSE]

\* particles[i] for a 0-based index i
At(P, i) == P[i + 1]
SetPos(P, i, v) == [P EXCEPT ![i + 1].pos = v]

\* --------------------------------------------------------------- Spring
\* variant: rest_length taken as the squared distance
Spring_new_squared(p1_index, p2_index, stiffness, P) ==
    [p1_index |-> p1_index, p2_index |-> p2_index,
     rest_length |-> length_squared(VSub(At(P, p1_index).pos, At(P, p2_index).pos)),
     stiffness |-> stiffness]

Spring_new(p1_index, p2_index, stiffness, P) ==
    [p1_index |-> p1_index, p2_index |-> p2_index,
     rest_length |-> length(VSub(At(P, p1_index).pos, At(P, p2_index).pos)),
     stiffness |-> stiffness]

\* variant: the correction applied without the inverse masses
spring_move_unweighted(s, P, p1, p2, correction_vec) ==
    SetPos(SetPos(P, s.p1_index, VSub(p1.pos, correction_vec)),
           s.p2_index, VAdd(p2.pos, correction_vec))

\* the two `pos` updates that end solve
spring_move(s, P, p1, p2, correction_vec) ==
    SetPos(SetPos(P, s.p1_index, VSub(p1.pos, VScale(correction_vec, p1.inv_mass))),
           s.p2_index, VAdd(p2.pos, VScale(correction_vec, p2.inv_mass)))
\* variant: the error taken as (dist + rest_length) / dist
spring_stretch_sum(s, P, p1, p2, total_inv_mass, diff, dist) ==
    IF Lt(dist, EPSILON) THEN P
    ELSE spring_move(s, P, p1, p2,
                     VScale(VScale(diff, Div(Add(dist, s.rest_length), dist)),
                            Div(s.stiffness, total_inv_mass)))

\* variant: the correction applied twice over
spring_stretch_twice(s, P, p1, p2, total_inv_mass, diff, dist) ==
    IF Lt(dist, EPSILON) THEN P
    ELSE spring_move(s, P, p1, p2,
                     VScale(VScale(diff, Div(Sub(dist, s.rest_length), dist)),
                            Mul(Q(2), Div(s.stiffness, total_inv_mass))))

\* from `if dist < f64::EPSILON` on; correction = diff * ((dist - rest_length) / dist)
\* and correction_vec = correction * (stiffness / total_inv_mass)
spring_stretch(s, P, p1, p2, total_inv_mass, diff, dist) ==
    IF Lt(dist, EPSILON) THEN P
    ELSE spring_move(s, P, p1, p2,
                     VScale(VScale(diff, Div(Sub(dist, s.rest_length), dist)),
                            Div(s.stiffness, total_inv_mass)))
\* from `if total_inv_mass < f64::EPSILON` on
spring_pair(s, P, p1, p2, total_inv_mass, diff) ==
    IF Lt(total_inv_mass, EPSILON) THEN P
    ELSE spring_stretch(s, P, p1, p2, total_inv_mass, diff, length(diff))
\* solve: p1_slice and p2_slice are taken from the two halves of
\* particles.split_at_mut(the larger index)
Spring_solve(s, P) ==
    LET p1 == IF s.p1_index < s.p2_index
              THEN SubSeq(P, 1, s.p2_index)[s.p1_index + 1]
              ELSE SubSeq(P, s.p1_index + 1, Len(P))[1]
        p2 == IF s.p1_index < s.p2_index
              THEN SubSeq(P, s.p2_index + 1, Len(P))[1]
              ELSE SubSeq(P, 1, s.p1_index)[s.p2_index + 1]
    IN  spring_pair(s, P, p1, p2, Add(p1.inv_mass, p2.inv_mass), VSub(p1.pos, p2.pos))

\* ------------------------------------------------ ShapeMatchingConstraint
mass_of(p) == IF Gt(p.inv_mass, EPSILON) THEN Div(One, p.inv_mass) ELSE Zero

\* the centroid loops: center and total_mass after indices[k..], from acc
RECURSIVE CenterSum(_, _, _, _)
CenterSum(indices, k, P, acc) ==
    IF k > Len(indices) THEN acc
    ELSE LET p == At(P, indices[k])
         IN  CenterSum(indices, k + 1, P,
                       [center |-> VAdd(acc.center, VScale(p.pos, mass_of(p))),
                        total_mass |-> Add(acc.total_mass, mass_of(p))])

NoMass == [center |-> VZero, total_mass |-> Zero]

\* variant: the origin when total_mass is not above epsilon, in new and in
\* calculate_center_of_mass alike
centroid_or_origin(acc, otherwise) ==
    IF Gt(acc.total_mass, EPSILON)
    THEN VScale(acc.center, Div(One, acc.total_mass))
    ELSE VZero

\* center * (1.0 / total_mass) when total_mass > f64::EPSILON, and otherwise
\* what the caller keeps
centroid(acc, otherwise) ==
    IF Gt(acc.total_mass, EPSILON)
    THEN VScale(acc.center, Div(One, acc.total_mass))
    ELSE otherwise

\* new, from the loop that stores the positions relative to initial_center
shape_about(particle_indices, stiffness, P, initial_center) ==
    [particle_indices |-> particle_indices,
     stiffness |-> stiffness,
     initial_shape |-> [k \in 1..Len(particle_indices) |->
                           VSub(At(P, particle_indices[k]).pos, initial_center)],
     center_of_mass |-> initial_center]

Shape_new(particle_indices, stiffness, P) ==
    shape_about(particle_indices, stiffness, P,
                centroid(CenterSum(particle_indices, 1, P, NoMass), VZero))

calculate_center_of_mass(sc, P) ==
    centroid(CenterSum(sc.particle_indices, 1, P, NoMass), sc.center_of_mass)

\* a_pq after the four `+=` for the relative vectors p (now) and q (at rest)
a_pq_plus(a_pq, p, q) ==
    Mat2(Vec2(Add(a_pq.c1.x, Mul(p.x, q.x)), Add(a_pq.c1.y, Mul(p.y, q.x))),
         Vec2(Add(a_pq.c2.x, Mul(p.x, q.y)), Add(a_pq.c2.y, Mul(p.y, q.y))))

\* variant: the a_pq loop leaving the fixed particles out of the sum
RECURSIVE Apq_skips_fixed(_, _, _, _, _)
Apq_skips_fixed(sc, com, k, P, a_pq) ==
    IF k > Len(sc.particle_indices) THEN a_pq
    ELSE IF At(P, sc.particle_indices[k]).is_fixed
    THEN Apq_skips_fixed(sc, com, k + 1, P, a_pq)
    ELSE Apq_skips_fixed(sc, com, k + 1, P,
             a_pq_plus(a_pq, VSub(At(P, sc.particle_indices[k]).pos, com),
                       sc.initial_shape[k]))

\* the a_pq loop of solve, from the k-th indexed particle on
RECURSIVE Apq(_, _, _, _, _)
Apq(sc, com, k, P, a_pq) ==
    IF k > Len(sc.particle_indices) THEN a_pq
    ELSE Apq(sc, com, k + 1, P,
             a_pq_plus(a_pq, VSub(At(P, sc.particle_indices[k]).pos, com),
                       sc.initial_shape[k]))

\* pos + (goal_pos - pos) * stiffness
shape_corrected(pos, goal_pos, stiffness) ==
    VAdd(pos, VScale(VSub(goal_pos, pos), stiffness))

\* variant: the correction loop without its is_fixed test
RECURSIVE ShapeCorrect_moves_fixed(_, _, _, _, _)
ShapeCorrect_moves_fixed(sc, com, r, k, P) ==
    IF k > Len(sc.particle_indices) THEN P
    ELSE LET p_idx == sc.particle_indices[k]
             particle == At(P, p_idx)
         IN  ShapeCorrect_moves_fixed(sc, com, r, k + 1,
                 SetPos(P, p_idx,
                        shape_corrected(particle.pos,
                                        VAdd(com, mul_vec(r, sc.initial_shape[k])),
                                        sc.stiffness)))

\* the correction loop of solve, from the k-th indexed particle on
RECURSIVE ShapeCorrect(_, _, _, _, _)
ShapeCorrect(sc, com, r, k, P) ==
    IF k > Len(sc.particle_indices) THEN P
    ELSE LET p_idx == sc.particle_indices[k]
             particle == At(P, p_idx)
         IN  IF particle.is_fixed THEN ShapeCorrect(sc, com, r, k + 1, P)
             ELSE ShapeCorrect(sc, com, r, k + 1,
                      SetPos(P, p_idx,
                             shape_corrected(particle.pos,
                                             VAdd(com, mul_vec(r, sc.initial_shape[k])),
                                             sc.stiffness)))

\* variant: solve storing the current offsets as initial_shape
shape_solved_reshaped(sc, P, com) ==
    [sc |-> [sc EXCEPT !.center_of_mass = com,
                       !.initial_shape =
                           [n \in 1..Len(sc.particle_indices) |->
                               VSub(At(P, sc.particle_indices[n]).pos, com)]],
     particles |-> ShapeCorrect(sc, com,
                                polar_decomposition(Apq(sc, com, 1, P, MZero)), 1, P)]

\* solve once center_of_mass is refreshed to com: the constraint and the particles
shape_solved(sc, P, com) ==
    [sc |-> [sc EXCEPT !.center_of_mass = com],
     particles |-> ShapeCorrect(sc, com,
                                polar_decomposition(Apq(sc, com, 1, P, MZero)), 1, P)]

Shape_solve(sc, P) == shape_solved(sc, P, calculate_center_of_mass(sc, P))

\* ----------------------------------------------------------- Simulation
\* Option<T>: <<>> is None, <<v>> is Some(v)
None == <<>>
Some(v) == <<v>>

\* spacing_x and spacing_y
spacing(size, count) == IF count > 1 THEN Div(size, Q(count - 1)) ELSE Zero
top_left(cfg) ==
    VSub(cfg.center, Vec2(Mul(cfg.size.x, <<1, 2>>), Mul(cfg.size.y, <<1, 2>>)))

\* variant: inv_mass = particle_inv_mass for fixed particles too
configure_particle_keeps_inv_mass(p, cfg) ==
    [p EXCEPT !.radius = cfg.particle_radius,
              !.is_fixed = cfg.is_fixed,
              !.inv_mass = cfg.particle_inv_mass]

\* radius, is_fixed and inv_mass of a new particle
configure_particle(p, cfg) ==
    IF cfg.is_fixed
    THEN [p EXCEPT !.radius = cfg.particle_radius, !.is_fixed = TRUE, !.inv_mass = Zero]
    ELSE [p EXCEPT !.radius = cfg.particle_radius, !.inv_mass = cfg.particle_inv_mass]

\* the particle loop of add_soft_body, row-major from cell n = i*cols + j
RECURSIVE GridParticles(_, _)
GridParticles(cfg, n) ==
    IF n >= cfg.rows * cfg.cols THEN <<>>
    ELSE LET i == n \div cfg.cols
             j == n % cfg.cols
         IN  <<configure_particle(
                   Particle_new(Add(top_left(cfg).x,
                                    Mul(Q(j), spacing(cfg.size.x, cfg.cols))),
                                Add(top_left(cfg).y,
                                    Mul(Q(i), spacing(cfg.size.y, cfg.rows)))),
                   cfg)>>
             \o GridParticles(cfg, n + 1)

\* variant: the spring loop without the springs down
RECURSIVE GridSprings_right_only(_, _, _, _)
GridSprings_right_only(cfg, start_index, n, P) ==
    IF n >= cfg.rows * cfg.cols THEN <<>>
    ELSE LET i == n \div cfg.cols
             j == n % cfg.cols
             p_idx == start_index + i * cfg.cols + j
         IN  (IF j < cfg.cols - 1
              THEN <<Spring_new(p_idx, start_index + i * cfg.cols + (j + 1),
                                cfg.stiffness, P)>>
              ELSE <<>>)
             \o GridSprings_right_only(cfg, start_index, n + 1, P)

\* the spring loop of add_soft_body, from cell n = i*cols + j: the spring to
\* the right, then the spring down
RECURSIVE GridSprings(_, _, _, _)
GridSprings(cfg, start_index, n, P) ==
    IF n >= cfg.rows * cfg.cols THEN <<>>
    ELSE LET i == n \div cfg.cols
             j == n % cfg.cols
             p_idx == start_index + i * cfg.cols + j
         IN  (IF j < cfg.cols - 1
              THEN <<Spring_new(p_idx, start_index + i * cfg.cols + (j + 1),
                                cfg.stiffness, P)>>
              ELSE <<>>)
             \o (IF i < cfg.rows - 1
                 THEN <<Spring_new(p_idx, start_index + (i + 1) * cfg.cols + j,
                                   cfg.stiffness, P)>>
                 ELSE <<>>)
             \o GridSprings(cfg, start_index, n + 1, P)

\* variant: the shape constraint made when config.stiffness > 0
grid_body_by_stiffness(cfg, start_index, particle_indices, P2) ==
    [particles |-> P2,
     body |-> [particle_indices |-> particle_indices,
               springs |-> IF Gt(cfg.stiffness, Zero)
                           THEN GridSprings(cfg, start_index, 0, P2) ELSE <<>>,
               shape_constraint |->
                   IF Gt(cfg.stiffness, Zero)
                   THEN Some(Shape_new(particle_indices, cfg.shape_stiffness, P2))
                   ELSE None]]

\* add_soft_body once the particles are pushed: the store P2 and the body
grid_body(cfg, start_index, particle_indices, P2) ==
    [particles |-> P2,
     body |-> [particle_indices |-> particle_indices,
               springs |-> IF Gt(cfg.stiffness, Zero)
                           THEN GridSprings(cfg, start_index, 0, P2) ELSE <<>>,
               shape_constraint |->
                   IF Gt(cfg.shape_stiffness, Zero)
                   THEN Some(Shape_new(particle_indices, cfg.shape_stiffness, P2))
                   ELSE None]]

\* variant: start_index taken as 0 whatever the store holds
add_soft_body_from_zero(cfg, P) ==
    grid_body(cfg, 0,
              [k \in 1..(cfg.rows * cfg.cols) |-> k - 1],
              P \o GridParticles(cfg, 0))

\* add_soft_body: the new particle store and the new body
add_soft_body(cfg, P) ==
    grid_body(cfg, Len(P),
              [k \in 1..(cfg.rows * cfg.cols) |-> Len(P) + k - 1],
              P \o GridParticles(cfg, 0))

\* variant: the integration loop advancing pos by the velocity held at entry
Integrate_old_velocity(P, gravity, dt) ==
    [k \in 1..Len(P) |->
        IF P[k].is_fixed THEN P[k]
        ELSE [P[k] EXCEPT !.vel = VAdd(P[k].vel, VScale(gravity, dt)),
                          !.prev_pos = P[k].pos,
                          !.pos = VAdd(P[k].pos, VScale(P[k].vel, dt))]]

\* variant: the integration loop leaving prev_pos as it was at entry
Integrate_keeps_prev(P, gravity, dt) ==
    [k \in 1..Len(P) |->
        IF P[k].is_fixed THEN P[k]
        ELSE LET vel == VAdd(P[k].vel, VScale(gravity, dt))
             IN  [P[k] EXCEPT !.vel = vel,
                              !.prev_pos = P[k].prev_pos,
                              !.pos = VAdd(P[k].pos, VScale(vel, dt))]]

\* the integration loop of step
Integrate(P, gravity, dt) ==
    [k \in 1..Len(P) |->
        IF P[k].is_fixed THEN P[k]
        ELSE LET vel == VAdd(P[k].vel, VScale(gravity, dt))
             IN  [P[k] EXCEPT !.vel = vel,
                              !.prev_pos = P[k].pos,
                              !.pos = VAdd(P[k].pos, VScale(vel, dt))]]

\* variant: the velocity loop without the damping factor
UpdateVelocities_undamped(P, damping, dt) ==
    [k \in 1..Len(P) |->
        IF P[k].is_fixed THEN [P[k] EXCEPT !.vel = VZero]
        ELSE [P[k] EXCEPT !.vel = VScale(VSub(P[k].pos, P[k].prev_pos), Div(One, dt))]]

\* the velocity loop of step
UpdateVelocities(P, damping, dt) ==
    [k \in 1..Len(P) |->
        IF P[k].is_fixed THEN [P[k] EXCEPT !.vel = VZero]
        ELSE LET new_vel == VScale(VSub(P[k].pos, P[k].prev_pos), Div(One, dt))
             IN  [P[k] EXCEPT !.vel = VScale(new_vel, damping)]]

\* the two `pos` updates of an overlapping pair
push_apart(P, i, j, p1, p2, correction) ==
    SetPos(SetPos(P, i, VAdd(p1.pos, VScale(correction, p1.inv_mass))),
           j, VSub(p2.pos, VScale(correction, p2.inv_mass)))

\* variant: each particle of an overlapping pair takes half of the depth,
\* whatever its inverse mass
separate_equal_shares(P, i, j, p1, p2, diff, depth, total_inv_mass) ==
    SetPos(SetPos(P, i, VAdd(p1.pos, VScale(normalize(diff), Mul(depth, <<1, 2>>)))),
           j, VSub(p2.pos, VScale(normalize(diff), Mul(depth, <<1, 2>>))))

\* variant: the correction not divided by the total inverse mass
separate_undivided(P, i, j, p1, p2, diff, depth, total_inv_mass) ==
    IF Lt(total_inv_mass, EPSILON) THEN P
    ELSE push_apart(P, i, j, p1, p2, VScale(normalize(diff), depth))

\* an overlapping pair, depth = min_dist - dist: from
\* `if total_inv_mass < f64::EPSILON { continue; }` on
separate(P, i, j, p1, p2, diff, depth, total_inv_mass) ==
    IF Lt(total_inv_mass, EPSILON) THEN P
    ELSE push_apart(P, i, j, p1, p2,
                    VScale(normalize(diff), Div(depth, total_inv_mass)))

\* from `if dist_sq < min_dist * min_dist` on; dist_sq.sqrt() is
\* sqrt(x*x + y*y), which these numbers do not tell from hypot(x, y)
collide(P, i, j, p1, p2, diff, min_dist) ==
    IF ~Lt(length_squared(diff), Mul(min_dist, min_dist)) THEN P
    ELSE separate(P, i, j, p1, p2, diff,
                  Sub(min_dist, hypot(diff.x, diff.y)),
                  Add(p1.inv_mass, p2.inv_mass))

\* the body of the pair loop of solve_collisions, for the pair i < j
CollidePair(P, i, j) ==
    LET p1 == At(P, i)
        p2 == At(P, j)
    IN  collide(P, i, j, p1, p2, VSub(p1.pos, p2.pos), Add(p1.radius, p2.radius))

\* the pair after (i, j) in the order of the two nested loops; i = n when done
NextPair(i, j, n) ==
    IF j + 1 < n THEN <<i, j + 1>>
    ELSE IF i + 2 < n THEN <<i + 1, i + 2>>
    ELSE <<n, n>>
FirstPair(n) == IF n >= 2 THEN <<0, 1>> ELSE <<n, n>>

RECURSIVE CollideFrom(_, _, _)
CollideFrom(P, i, j) ==
    IF i >= Len(P) THEN P
    ELSE LET nx == NextPair(i, j, Len(P))
         IN  CollideFrom(CollidePair(P, i, j), nx[1], nx[2])

solve_collisions(P) == CollideFrom(P, FirstPair(Len(P))[1], FirstPair(Len(P))[2])

\* variant: the clamp of the centre to [min, max], without the radius
apply_boundary_conditions_no_radius(P, bounds) ==
    IF bounds = None THEN P
    ELSE LET min == bounds[1].min
             max == bounds[1].max
         IN  [k \in 1..Len(P) |->
                [P[k] EXCEPT
                   !.pos = Vec2(FMin(FMax(P[k].pos.x, min.x), max.x),
                                FMin(FMax(P[k].pos.y, min.y), max.y))]]

\* variant: the clamp leaving the fixed particles where they are
apply_boundary_conditions_skips_fixed(P, bounds) ==
    IF bounds = None THEN P
    ELSE LET min == bounds[1].min
             max == bounds[1].max
         IN  [k \in 1..Len(P) |->
                IF P[k].is_fixed THEN P[k]
                ELSE [P[k] EXCEPT
                        !.pos = Vec2(FMin(FMax(P[k].pos.x, Add(min.x, P[k].radius)),
                                          Sub(max.x, P[k].radius)),
                                     FMin(FMax(P[k].pos.y, Add(min.y, P[k].radius)),
                                          Sub(max.y, P[k].radius)))]]

apply_boundary_conditions(P, bounds) ==
    IF bounds = None THEN P
    ELSE LET min == bounds[1].min
             max == bounds[1].max
         IN  [k \in 1..Len(P) |->
                [P[k] EXCEPT
                   !.pos = Vec2(FMin(FMax(P[k].pos.x, Add(min.x, P[k].radius)),
                                     Sub(max.x, P[k].radius)),
                                FMin(FMax(P[k].pos.y, Add(min.y, P[k].radius)),
                                     Sub(max.y, P[k].radius)))]]

\* step as one call on a Simulation value [particles, soft_bodies, config]
\* `for spring in &sb.springs { spring.solve(..) }`, from the n-th spring on
RECURSIVE solve_springs(_, _, _)
solve_springs(springs, n, P) ==
    IF n > Len(springs) THEN P
    ELSE solve_springs(springs, n + 1, Spring_solve(springs[n], P))

\* `if let Some(sc) = &mut sb.shape_constraint { sc.solve(..) }` on the store
\* the springs of sb left
shape_pass(sb, r) ==
    [particles |-> r.particles,
     body |-> [sb EXCEPT !.shape_constraint = Some(r.sc)]]
solve_body(sb, P) ==
    IF sb.shape_constraint = None THEN [particles |-> P, body |-> sb]
    ELSE shape_pass(sb, Shape_solve(sb.shape_constraint[1], P))

\* `for sb in &mut self.soft_bodies`, from the n-th body on
sweep_one(sim, n, r) ==
    [sim EXCEPT !.particles = r.particles, !.soft_bodies[n] = r.body]
RECURSIVE sweep(_, _)
sweep(sim, n) ==
    IF n > Len(sim.soft_bodies) THEN sim
    ELSE sweep(sweep_one(sim, n,
                         solve_body(sim.soft_bodies[n],
                                    solve_springs(sim.soft_bodies[n].springs, 1,
                                                  sim.particles))),
               n + 1)

\* one pass of `for _ in 0..self.config.solver_iterations`
clamped(sim) ==
    [sim EXCEPT !.particles =
        apply_boundary_conditions(solve_collisions(sim.particles), sim.config.bounds)]
RECURSIVE iterate(_, _)
iterate(sim, n) ==
    IF n = 0 THEN sim
    ELSE iterate(clamped(sweep(sim, 1)), n - 1)

finish(sim, d) ==
    [sim EXCEPT !.particles = UpdateVelocities(sim.particles, sim.config.damping, d)]
step(sim, d) ==
    finish(iterate([sim EXCEPT !.particles =
                        Integrate(sim.particles, sim.config.gravity, d)],
                   sim.config.solver_iterations),
           d)

\* ---------------------------------------------------------------- state
VARIABLES
    particles,      \* Simulation.particles
    soft_bodies,    \* Simulation.soft_bodies
    config,         \* Simulation.config
    pc,             \* where the running step() is: "idle" between calls
    dt,             \* the argument of the running step()
    iter,           \* the counter of the solver_iterations loop
    body,           \* index of the soft body being solved
    k,              \* index of the spring being solved in that body
    pair,           \* <<i, j>> of the collision loops
    entry,          \* history: the particles when the running step() was called
    log,            \* history: the solves of the running step(), in order
    steps,          \* history: number of completed step() calls
    overwrites,     \* history: number of external overwrites
    last,           \* history: the call that returned last
    pre,            \* history: the particles before the latest operation
    arg,            \* a unit called on its own: its receiver or argument
    ret,            \* a unit called on its own: what it returned
    calls           \* a unit called on its own: number of operations made

vars == <<particles, soft_bodies, config, pc, dt, iter, body, k, pair,
          entry, log, steps, overwrites, last, pre, arg, ret, calls>>

\* ---------------------------------------------------------------- bounds
MaxSteps == 2
MaxBodies == 2
MaxParticles == 4
MaxOverwrites == 1
\* operations on a unit called on its own
MaxCalls == 2
\* largest absolute value of a matrix entry
MatMax == 2

\* ---------------------------------------------------------------- inputs
V(x, y) == Vec2(Q(x), Q(y))
Half == <<1, 2>>

Box(x0, y0, x1, y1) == Some([min |-> V(x0, y0), max |-> V(x1, y1)])

SimConfig(damping, solver_iterations, bounds) ==
    [gravity |-> V(0, 1), damping |-> damping,
     solver_iterations |-> solver_iterations, bounds |-> bounds]

Configs ==
    { SimConfig(One, 1, None),
      SimConfig(Half, 2, Box(0, 0, 8, 8)),
      SimConfig(One, 2, Box(0, 0, 1, 8)),
      SimConfig(Half, 0, Box(0, 0, 8, 8)) }

BodyConfig(center, size, rows, cols, stiffness, shape_stiffness, is_fixed, radius, inv_mass) ==
    [center |-> center, size |-> size, rows |-> rows, cols |-> cols,
     stiffness |-> stiffness, shape_stiffness |-> shape_stiffness,
     is_fixed |-> is_fixed, particle_radius |-> radius, particle_inv_mass |-> inv_mass]

BodyConfigs ==
    { BodyConfig(V(3, 3), V(2, 2), 2, 2, Half, Half, FALSE, One, One),
      BodyConfig(V(3, 3), V(0, 3), 2, 1, One, Zero, FALSE, One, One),
      BodyConfig(V(3, 5), V(3, 0), 1, 2, One, Half, TRUE, One, One),
      BodyConfig(V(3, 6), V(0, 0), 1, 1, Zero, One, FALSE, One, Zero),
      BodyConfig(V(3, 5), V(2, 2), 1, 1, Zero, Zero, FALSE, Half, Q(2)) }

Dts == {One, Half}

\* <<pos, vel, prev_pos>> written from outside; the first is the drag of
\* tests/a.rs, which resets vel and prev_pos
Overwrites ==
    { <<V(2, 4), VZero, V(2, 4)>>,
      <<V(-1, 9), V(1, 0), V(2, 2)>> }

\* ------------------------------------------------------------- positions
\* variant: a sweep that goes from the last body straight to the clamp
SweepAt_without_collisions(bodies, n, b) ==
    IF b < Len(bodies)
    THEN IF Len(bodies[b + 1].springs) > 0
         THEN [pc |-> "springs", body |-> b, pair |-> <<0, 0>>]
         ELSE [pc |-> "shape", body |-> b, pair |-> <<0, 0>>]
    ELSE [pc |-> "clamp", body |-> 0, pair |-> <<0, 0>>]

\* where the sweep goes when it reaches body b
SweepAt(bodies, n, b) ==
    IF b < Len(bodies)
    THEN IF Len(bodies[b + 1].springs) > 0
         THEN [pc |-> "springs", body |-> b, pair |-> <<0, 0>>]
         ELSE [pc |-> "shape", body |-> b, pair |-> <<0, 0>>]
    ELSE IF n >= 2
    THEN [pc |-> "collide", body |-> 0, pair |-> FirstPair(n)]
    ELSE [pc |-> "clamp", body |-> 0, pair |-> <<0, 0>>]

Goto(at) ==
    /\ pc' = at.pc
    /\ body' = at.body
    /\ k' = 0
    /\ pair' = at.pair

\* ----------------------------------------------------------------- Init
\* Simulation::new(c)
New(c) ==
    /\ particles = <<>>
    /\ soft_bodies = <<>>
    /\ config = c
    /\ pc = "idle"
    /\ dt = One
    /\ iter = 0
    /\ body = 0
    /\ k = 0
    /\ pair = <<0, 0>>
    /\ entry = <<>>
    /\ log = <<>>
    /\ steps = 0
    /\ overwrites = 0
    /\ last = "new"
    /\ pre = <<>>
    /\ arg = None
    /\ ret = None
    /\ calls = 0

Init == \E c \in Configs : New(c)

\* -------------------------------------------------------------- actions
AddSoftBody(cfg) ==
    /\ pc = "idle"
    /\ Len(soft_bodies) < MaxBodies
    /\ Len(particles) + cfg.rows * cfg.cols <= MaxParticles
    /\ \E r \in {add_soft_body(cfg, particles)} :
           /\ particles' = r.particles
           /\ soft_bodies' = Append(soft_bodies, r.body)
    /\ last' = "add_soft_body"
    /\ UNCHANGED <<config, pc, dt, iter, body, k, pair, entry, log, steps, overwrites>>
    /\ pre' = particles
    /\ UNCHANGED <<arg, ret, calls>>

\* the rendering/input layer writes pos, vel and prev_pos of one particle
Overwrite(i, p, v, pp) ==
    /\ pc = "idle"
    /\ overwrites < MaxOverwrites
    /\ i < Len(particles)
    /\ particles' = [particles EXCEPT ![i + 1].pos = p, ![i + 1].vel = v,
                                      ![i + 1].prev_pos = pp]
    /\ overwrites' = overwrites + 1
    /\ last' = "overwrite"
    /\ UNCHANGED <<soft_bodies, config, pc, dt, iter, body, k, pair, entry, log, steps>>
    /\ pre' = particles
    /\ UNCHANGED <<arg, ret, calls>>

\* variant: the counter of the solver loop kept from the previous call
StepFrom_keeps_iter(d) ==
    /\ pc = "idle"
    /\ dt' = d
    /\ entry' = particles
    /\ log' = <<<<"integrate">>>>
    /\ iter' = iter
    /\ particles' = Integrate(particles, config.gravity, d)
    /\ IF config.solver_iterations > 0
       THEN Goto(SweepAt(soft_bodies, Len(particles), 0))
       ELSE Goto([pc |-> "velocity", body |-> 0, pair |-> <<0, 0>>])
    /\ UNCHANGED <<soft_bodies, config, steps, overwrites, last>>
    /\ pre' = particles
    /\ UNCHANGED <<arg, ret, calls>>

\* step(d): entry and the integration loop
StepFrom(d) ==
    /\ pc = "idle"
    /\ dt' = d
    /\ entry' = particles
    /\ log' = <<<<"integrate">>>>
    /\ iter' = 0
    /\ particles' = Integrate(particles, config.gravity, d)
    /\ IF config.solver_iterations > 0
       THEN Goto(SweepAt(soft_bodies, Len(particles), 0))
       ELSE Goto([pc |-> "velocity", body |-> 0, pair |-> <<0, 0>>])
    /\ UNCHANGED <<soft_bodies, config, steps, overwrites, last>>
    /\ pre' = particles
    /\ UNCHANGED <<arg, ret, calls>>

StepIntegrate(d) == steps < MaxSteps /\ StepFrom(d)

\* step: one spring.solve of the inner loop
SolveSpring ==
    /\ pc = "springs"
    /\ LET springs == soft_bodies[body + 1].springs
       IN  /\ particles' = Spring_solve(springs[k + 1], particles)
           /\ log' = Append(log, <<"spring", body, k>>)
           /\ IF k + 1 < Len(springs)
              THEN /\ k' = k + 1
                   /\ UNCHANGED <<pc, body, pair>>
              ELSE Goto([pc |-> "shape", body |-> body, pair |-> <<0, 0>>])
    /\ UNCHANGED <<soft_bodies, config, dt, iter, entry, steps, overwrites, last>>
    /\ pre' = particles
    /\ UNCHANGED <<arg, ret, calls>>

\* step: `if let Some(sc) = &mut sb.shape_constraint { sc.solve(..) }`
SolveShape ==
    /\ pc = "shape"
    /\ LET sc == soft_bodies[body + 1].shape_constraint
       IN  IF sc # None
           THEN \E r \in {Shape_solve(sc[1], particles)} :
                    /\ particles' = r.particles
                    /\ soft_bodies' = [soft_bodies EXCEPT
                                         ![body + 1].shape_constraint = Some(r.sc)]
                    /\ log' = Append(log, <<"shape", body>>)
           ELSE UNCHANGED <<particles, soft_bodies, log>>
    /\ Goto(SweepAt(soft_bodies, Len(particles), body + 1))
    /\ UNCHANGED <<config, dt, iter, entry, steps, overwrites, last>>
    /\ pre' = particles
    /\ UNCHANGED <<arg, ret, calls>>

\* step: solve_collisions, one pair of its loops
CollideStep ==
    /\ pc = "collide"
    /\ particles' = CollidePair(particles, pair[1], pair[2])
    /\ log' = Append(log, <<"pair", pair[1], pair[2]>>)
    /\ LET nx == NextPair(pair[1], pair[2], Len(particles))
       IN  IF nx[1] < Len(particles)
           THEN /\ pair' = nx
                /\ UNCHANGED <<pc, body, k>>
           ELSE Goto([pc |-> "clamp", body |-> 0, pair |-> <<0, 0>>])
    /\ UNCHANGED <<soft_bodies, config, dt, iter, entry, steps, overwrites, last>>
    /\ pre' = particles
    /\ UNCHANGED <<arg, ret, calls>>

\* step: apply_boundary_conditions, and the end of one solver iteration
Clamp ==
    /\ pc = "clamp"
    /\ particles' = apply_boundary_conditions(particles, config.bounds)
    /\ log' = Append(log, <<"clamp">>)
    /\ iter' = iter + 1
    /\ IF iter + 1 < config.solver_iterations
       THEN Goto(SweepAt(soft_bodies, Len(particles), 0))
       ELSE Goto([pc |-> "velocity", body |-> 0, pair |-> <<0, 0>>])
    /\ UNCHANGED <<soft_bodies, config, dt, entry, steps, overwrites, last>>
    /\ pre' = particles
    /\ UNCHANGED <<arg, ret, calls>>

\* step: the velocity loop, and return
UpdateVelocity ==
    /\ pc = "velocity"
    /\ particles' = UpdateVelocities(particles, config.damping, dt)
    /\ log' = Append(log, <<"velocity">>)
    /\ pc' = "idle"
    /\ steps' = steps + 1
    /\ last' = "step"
    /\ UNCHANGED <<soft_bodies, config, dt, iter, body, k, pair, entry, overwrites>>
    /\ pre' = particles
    /\ UNCHANGED <<arg, ret, calls>>

Next ==
    \/ \E cfg \in BodyConfigs : AddSoftBody(cfg)
    \/ \E i \in 0..(MaxParticles - 1), w \in Overwrites : Overwrite(i, w[1], w[2], w[3])
    \/ \E d \in Dts : StepIntegrate(d)
    \/ SolveSpring
    \/ SolveShape
    \/ CollideStep
    \/ Clamp
    \/ UpdateVelocity

Spec == Init /\ [][Next]_vars

\* --------------------------------------------------- scenes on one axis
\* every particle on the line x = 3: all geometry, and with it every sqrt,
\* is rational
AxisBodyConfigs ==
    { BodyConfig(V(3, 3), V(0, 3), 2, 1, One, Zero, FALSE, One, One),
      BodyConfig(V(3, 4), V(0, 2), 2, 1, Half, One, FALSE, One, One),
      BodyConfig(V(3, 5), V(0, 0), 1, 1, One, Half, TRUE, One, One),
      BodyConfig(V(3, 6), V(0, 0), 1, 1, Zero, Zero, FALSE, One, Zero),
      BodyConfig(V(3, 5), V(0, 2), 1, 1, Zero, Zero, FALSE, Half, Q(2)) }

\* the boxes leave x = 3 alone; the third has no room on the y axis
AxisConfigs ==
    { SimConfig(One, 1, None),
      SimConfig(Half, 2, Box(0, 0, 8, 8)),
      SimConfig(One, 2, Box(0, 4, 8, 5)),
      SimConfig(Half, 0, Box(0, 0, 8, 8)) }

AxisOverwrites ==
    { <<V(3, 4), VZero, V(3, 4)>>,
      <<V(3, 9), V(0, 1), V(3, 2)>> }

NextAxis ==
    \/ \E cfg \in AxisBodyConfigs : AddSoftBody(cfg)
    \/ \E i \in 0..(MaxParticles - 1), w \in AxisOverwrites :
          Overwrite(i, w[1], w[2], w[3])
    \/ \E d \in Dts : StepIntegrate(d)
    \/ SolveSpring
    \/ SolveShape
    \/ CollideStep
    \/ Clamp
    \/ UpdateVelocity

AxisInit == \E c \in AxisConfigs : New(c)

AxisSpec == AxisInit /\ [][NextAxis]_vars

\* ------------------------------------- the end-to-end scenario with bounds
\* gravity (0,980), a box (0,0)-(W,H), one body of two particles in a column
\* (rows = 2, cols = 1, stiffness 1.0, shape_stiffness 0), ScenarioSteps
\* calls of step(1/60)
ScenarioSteps == 100
ScenarioDt == <<1, 60>>

ScenarioConfigs ==
    { [gravity |-> V(0, 980), damping |-> dm, solver_iterations |-> it, bounds |-> bx] :
        dm \in {One, <<99, 100>>}, it \in {1, 8},
        bx \in {Box(0, 0, 800, 600), Box(0, 0, 200, 300)} }

\* a tall column and a short one, of large and of small particles
ScenarioBodies ==
    { BodyConfig(V(100, 200), V(0, 100), 2, 1, One, Zero, FALSE, Q(8), One),
      BodyConfig(V(100, 100), V(0, 10), 2, 1, One, Zero, FALSE, Q(8), One),
      BodyConfig(V(100, 150), V(0, 40), 2, 1, One, Zero, FALSE, Q(2), One) }

ScenarioInit == \E c \in ScenarioConfigs : New(c)

ScenarioAdd(cfg) == soft_bodies = <<>> /\ AddSoftBody(cfg)
ScenarioStep == Len(soft_bodies) = 1 /\ steps < ScenarioSteps /\ StepFrom(ScenarioDt)

NextScenario ==
    \/ \E cfg \in ScenarioBodies : ScenarioAdd(cfg)
    \/ ScenarioStep
    \/ SolveSpring
    \/ SolveShape
    \/ CollideStep
    \/ Clamp
    \/ UpdateVelocity

SpecScenario == ScenarioInit /\ [][NextScenario]_vars

\* ------------------------------------- two simulations in equal states
\* the Simulation value of the running program
Sim == [particles |-> particles, soft_bodies |-> soft_bodies, config |-> config]

TwinAdd(cfg) == arg = None /\ AddSoftBody(cfg)

\* a second Simulation is set up holding what the first holds now, after
\* `born` step() calls of the first
TwinMake ==
    /\ pc = "idle"
    /\ arg = None
    /\ Len(soft_bodies) > 0
    /\ arg' = Some([sim |-> Sim, born |-> steps, steps |-> steps])
    /\ last' = "twin"
    /\ UNCHANGED <<particles, soft_bodies, config, pc, dt, iter, body, k, pair,
                   entry, log, steps, overwrites, pre, ret, calls>>

\* step(d) on the first, once the second has caught up
TwinStepFirst(d) ==
    /\ IF arg = None THEN TRUE ELSE arg[1].steps = steps
    /\ StepIntegrate(d)

\* step(dt) on the second, with the dt the first was just stepped with
TwinStepSecond ==
    /\ pc = "idle"
    /\ arg # None
    /\ arg[1].steps < steps
    /\ arg' = Some([arg[1] EXCEPT !.sim = step(arg[1].sim, dt),
                                  !.steps = arg[1].steps + 1])
    /\ last' = "twin_step"
    /\ UNCHANGED <<particles, soft_bodies, config, pc, dt, iter, body, k, pair,
                   entry, log, steps, overwrites, pre, ret, calls>>

NextTwin ==
    \/ \E cfg \in BodyConfigs : TwinAdd(cfg)
    \/ TwinMake
    \/ \E d \in Dts : TwinStepFirst(d)
    \/ TwinStepSecond
    \/ SolveSpring
    \/ SolveShape
    \/ CollideStep
    \/ Clamp
    \/ UpdateVelocity

SpecTwin == Init /\ [][NextTwin]_vars

\* ------------------------------------------------- units called directly
\* a store and a receiver made by the caller, outside any Simulation
Unit(P, a) ==
    /\ particles = P
    /\ soft_bodies = <<>>
    /\ config = SimConfig(One, 1, None)
    /\ pc = "idle"
    /\ dt = One
    /\ iter = 0
    /\ body = 0
    /\ k = 0
    /\ pair = <<0, 0>>
    /\ entry = P
    /\ log = <<>>
    /\ steps = 0
    /\ overwrites = 0
    /\ last = "new"
    /\ pre = P
    /\ arg = a
    /\ ret = None
    /\ calls = 0

\* Particle::new(x, y) with inv_mass, radius and is_fixed then assigned
Free(pos, radius, inv_mass) ==
    [Particle_new(pos.x, pos.y) EXCEPT !.radius = radius, !.inv_mass = inv_mass]

\* ---- solve_collisions on two free particles that overlap along one axis
CollideRadii == {Half, One, Q(2)}
CollideInvMasses == {Zero, Half, One, Q(3)}
CollideGaps == {Zero, <<1, 4>>, Half, One, <<3, 2>>, Q(2), Q(3)}
Directions == {V(1, 0), V(-1, 0), V(0, 1), V(0, -1)}

CollideInit ==
    \E r1 \in CollideRadii, r2 \in CollideRadii,
       w1 \in CollideInvMasses, w2 \in CollideInvMasses,
       gap \in CollideGaps, dir \in Directions :
        /\ Lt(gap, Add(r1, r2))
        /\ Unit(<<Free(V(3, 3), r1, w1),
                  Free(VAdd(V(3, 3), VScale(dir, gap)), r2, w2)>>, None)

CollisionPass ==
    /\ calls < MaxCalls
    /\ particles' = solve_collisions(particles)
    /\ pre' = particles
    /\ calls' = calls + 1
    /\ last' = "solve_collisions"
    /\ UNCHANGED <<soft_bodies, config, pc, dt, iter, body, k, pair, entry, log,
                   steps, overwrites, arg, ret>>

SpecCollide == CollideInit /\ [][CollisionPass]_vars

\* ---- Spring::new and Spring::solve on two particles placed by the caller,
\* in a slice that holds a third one
\* where the two particles are when the spring is built
SpringEnds ==
    { <<V(0, 0), V(3, 4)>>, <<V(1, 1), V(1, 3)>>, <<V(0, 0), V(1, 1)>>,
      <<V(2, 2), V(2, 2)>> }
\* where the caller puts them afterwards: at the same distance, at another
\* one, on top of each other
SpringPlaces ==
    { <<V(3, 0), V(0, 4)>>, <<V(5, 5), V(5, 3)>>, <<V(2, 2), V(3, 3)>>,
      <<V(0, 0), V(4, 0)>>, <<V(1, 2), V(1, 2)>> }
SpringInvMasses == {Zero, Half, One, Q(3)}
SpringStiffness == {<<1, 4>>, Half, One}

SpringInit ==
    \E e \in SpringEnds, w1 \in SpringInvMasses, w2 \in SpringInvMasses,
       s \in SpringStiffness, ix \in {<<0, 1>>, <<1, 0>>} :
        LET P == <<Free(e[1], One, w1), Free(e[2], One, w2), Free(V(7, 7), One, One)>>
        IN  Unit(P, Some(Spring_new(ix[1], ix[2], s, P)))

\* the caller writes the pos of both particles
SpringPlace(e) ==
    /\ calls < MaxCalls
    /\ particles' = [n \in 1..Len(particles) |->
                        IF n <= 2 THEN [particles[n] EXCEPT !.pos = e[n]]
                        ELSE particles[n]]
    /\ pre' = particles
    /\ calls' = calls + 1
    /\ last' = "place"
    /\ UNCHANGED <<soft_bodies, config, pc, dt, iter, body, k, pair, entry, log,
                   steps, overwrites, arg, ret>>

SpringSolve ==
    /\ calls < MaxCalls
    /\ particles' = Spring_solve(arg[1], particles)
    /\ pre' = particles
    /\ calls' = calls + 1
    /\ last' = "spring_solve"
    /\ UNCHANGED <<soft_bodies, config, pc, dt, iter, body, k, pair, entry, log,
                   steps, overwrites, arg, ret>>

NextSpring ==
    \/ \E e \in SpringPlaces : SpringPlace(e)
    \/ SpringSolve

SpecSpring == SpringInit /\ [][NextSpring]_vars

\* ---- Mat2::polar_decomposition on matrices with small integer entries,
\* as they are and scaled down below epsilon
Entries == (0 - MatMax)..MatMax
Scales == {One, <<1, 1024>>}

PolarInit ==
    \E a \in Entries, b \in Entries, c \in Entries, d \in Entries, s \in Scales :
        Unit(<<>>, Some(Mat2(VScale(V(a, b), s), VScale(V(c, d), s))))

PolarCall ==
    /\ calls = 0
    /\ ret' = Some(polar_decomposition(arg[1]))
    /\ calls' = 1
    /\ last' = "polar_decomposition"
    /\ UNCHANGED <<particles, soft_bodies, config, pc, dt, iter, body, k, pair,
                   entry, log, steps, overwrites, pre, arg>>

SpecPolar == PolarInit /\ [][PolarCall]_vars

\* ---- ShapeMatchingConstraint::new and solve on a group moved rigidly
\* the positions the group is built at
Poses ==
    { <<V(2, 1)>>,
      <<V(1, 0), V(3, 0)>>,
      <<V(0, 0), V(4, 0), V(0, 2)>>,
      <<V(1, 1), V(3, 1), V(1, 3), V(3, 3)>> }
ShapeInvMasses == {Zero, One, Q(2)}
ShapeStiffness == {Half, One}

\* rotations with rational entries, as <<cos, sin>>
Rotations == {<<One, Zero>>, <<Zero, One>>, <<Q(-1), Zero>>, <<Zero, Q(-1)>>,
              <<<<3, 5>>, <<4, 5>>>>, <<<<-4, 5>>, <<3, 5>>>>}
Translations == {V(0, 0), V(0, 5), V(-2, 1)}

Rotation(cs) == Mat2(Vec2(cs[1], cs[2]), Vec2(Neg(cs[2]), cs[1]))

\* every pos of P0 rotated, then translated
Moved(P0, cs, t) ==
    [n \in 1..Len(P0) |->
        [P0[n] EXCEPT !.pos = VAdd(mul_vec(Rotation(cs), P0[n].pos), t)]]

ShapeInit ==
    \E pose \in Poses, w1 \in ShapeInvMasses, w2 \in ShapeInvMasses,
       fixed \in BOOLEAN, s \in ShapeStiffness :
        LET P == [n \in 1..Len(pose) |->
                    IF n = 1 /\ fixed
                    THEN [Free(pose[n], One, Zero) EXCEPT !.is_fixed = TRUE]
                    ELSE Free(pose[n], One, IF n % 2 = 1 THEN w1 ELSE w2)]
        IN  Unit(P, Some(Shape_new([n \in 1..Len(pose) |-> n - 1], s, P)))

\* the caller puts the group where a rotation and a translation take the
\* positions it was built at
RigidMove(cs, t) ==
    /\ calls < MaxCalls
    /\ particles' = Moved(entry, cs, t)
    /\ pre' = particles
    /\ calls' = calls + 1
    /\ last' = "rigid_move"
    /\ UNCHANGED <<soft_bodies, config, pc, dt, iter, body, k, pair, entry, log,
                   steps, overwrites, arg, ret>>

ShapeSolve ==
    /\ calls < MaxCalls
    /\ \E r \in {Shape_solve(arg[1], particles)} :
           /\ particles' = r.particles
           /\ arg' = Some(r.sc)
    /\ pre' = particles
    /\ calls' = calls + 1
    /\ last' = "shape_solve"
    /\ UNCHANGED <<soft_bodies, config, pc, dt, iter, body, k, pair, entry, log,
                   steps, overwrites, ret>>

\* the caller sets the pub field inv_mass of every particle to 0.0
Pin ==
    /\ ~(\A n \in 1..Len(particles) : particles[n].inv_mass = Zero)
    /\ particles' = [n \in 1..Len(particles) |-> [particles[n] EXCEPT !.inv_mass = Zero]]
    /\ pre' = particles
    /\ last' = "pin"
    /\ UNCHANGED <<soft_bodies, config, pc, dt, iter, body, k, pair, entry, log,
                   steps, overwrites, arg, ret, calls>>

NextShape ==
    \/ \E cs \in Rotations, t \in Translations : RigidMove(cs, t)
    \/ ShapeSolve
    \/ Pin

SpecShape == ShapeInit /\ [][NextShape]_vars

\* ---- circular_windows() on a slice, and next() called on the iterator
\* longest slice, and number of next() calls
MaxLen == 3
MaxNexts == 5

\* variant: next stopping before the pair that wraps around, as windows(2) does
CircularWindows_next_unwrapped(it) ==
    IF Len(it.slice) = 0 \/ it.index + 1 >= Len(it.slice)
    THEN [it |-> it, item |-> None]
    ELSE [it |-> [it EXCEPT !.index = it.index + 1],
          item |-> Some(<<it.slice[it.index + 1],
                          it.slice[((it.index + 1) % Len(it.slice)) + 1]>>)]

\* next: the iterator after the call and the Option it returns
CircularWindows_next(it) ==
    IF Len(it.slice) = 0 \/ it.index >= Len(it.slice)
    THEN [it |-> it, item |-> None]
    ELSE [it |-> [it EXCEPT !.index = it.index + 1],
          item |-> Some(<<it.slice[it.index + 1],
                          it.slice[((it.index + 1) % Len(it.slice)) + 1]>>)]

circular_windows(slice) == [slice |-> slice, index |-> 0]

\* the slices of up to MaxLen elements, equal elements allowed
Slices == UNION {[1..n -> {"a", "b", "c"}] : n \in 0..MaxLen}

WindowsInit == \E s \in Slices : Unit(<<>>, Some(circular_windows(s)))

\* one call of next(): ret is what it returned, log the pairs returned so far
WindowsNext ==
    /\ calls < MaxNexts
    /\ \E r \in {CircularWindows_next(arg[1])} :
           /\ arg' = Some(r.it)
           /\ ret' = Some(r.item)
           /\ log' = IF r.item = None THEN log ELSE Append(log, r.item[1])
    /\ calls' = calls + 1
    /\ last' = "next"
    /\ UNCHANGED <<particles, soft_bodies, config, pc, dt, iter, body, k, pair,
                   entry, steps, overwrites, pre>>

SpecWindows == WindowsInit /\ [][WindowsNext]_vars

\* --------------------------------------------------------------- claims
\* step() has just returned
Returned == pc = "idle" /\ last = "step"
\* this transition is the integration loop of a step() call
Integrating == pc = "idle" /\ pc' # "idle"

Indices == 1..Len(particles)

InsideX(p, b) ==
    Le(Add(b.min.x, p.radius), p.pos.x) /\ Le(p.pos.x, Sub(b.max.x, p.radius))
InsideY(p, b) ==
    Le(Add(b.min.y, p.radius), p.pos.y) /\ Le(p.pos.y, Sub(b.max.y, p.radius))
FitsX(p, b) == Le(Add(b.min.x, p.radius), Sub(b.max.x, p.radius))
FitsY(p, b) == Le(Add(b.min.y, p.radius), Sub(b.max.y, p.radius))

\* C1 as stated: with bounds set, after every step every particle lies in
\* [min + radius, max - radius] on both axes.
C1_AsStated ==
    (Returned /\ config.bounds # None) =>
        \A n \in Indices : /\ InsideX(particles[n], config.bounds[1])
                           /\ InsideY(particles[n], config.bounds[1])

\* C1: with bounds set and solver_iterations >= 1, after every step every
\* particle, fixed or not, lies in [min + radius, max - radius] on each axis
\* on which that interval is not empty for its radius.
C1_BoundaryContainment ==
    (Returned /\ config.bounds # None /\ config.solver_iterations >= 1) =>
        \A n \in Indices :
            LET p == particles[n]
                b == config.bounds[1]
            IN  /\ FitsX(p, b) => InsideX(p, b)
                /\ FitsY(p, b) => InsideY(p, b)

\* a fixed particle that an overwrite had put outside the box is inside
\* after the step
C1_Witness ==
    /\ Returned /\ config.bounds # None /\ config.solver_iterations >= 1
    /\ \E n \in Indices :
          LET b == config.bounds[1]
          IN  /\ particles[n].is_fixed
              /\ FitsX(particles[n], b) /\ FitsY(particles[n], b)
              /\ ~InsideX(entry[n], b) /\ ~InsideY(entry[n], b)
              /\ InsideX(particles[n], b) /\ InsideY(particles[n], b)

\* C2: a fixed particle ends every step with vel = (0,0), and neither the
\* integration loop nor a Spring.solve nor a ShapeMatchingConstraint.solve
\* changes its pos.
C2_FixedParticle ==
    [][ /\ pc = "velocity" =>
             \A n \in Indices : particles'[n].is_fixed => particles'[n].vel = VZero
        /\ (Integrating \/ pc = "springs" \/ pc = "shape") =>
             \A n \in Indices : particles[n].is_fixed =>
                                   particles'[n].pos = particles[n].pos ]_vars

\* a step has returned in which a fixed particle entered with a non-zero vel
\* and its body's springs and shape constraint were solved
C2_Witness ==
    /\ Returned
    /\ \E b \in 1..Len(soft_bodies) :
          /\ \E i \in 1..Len(log) : log[i] = <<"spring", b - 1, 0>>
          /\ \E i \in 1..Len(log) : log[i] = <<"shape", b - 1>>
          /\ \E m \in 1..Len(soft_bodies[b].particle_indices) :
                LET n == soft_bodies[b].particle_indices[m] + 1
                IN  /\ particles[n].is_fixed
                    /\ entry[n].vel # VZero
                    /\ particles[n].vel = VZero
                    /\ particles[n].pos = entry[n].pos

\* C3: every particle satisfies is_fixed => inv_mass == 0.
C3_FixedHasNoInvMass ==
    \A n \in Indices : particles[n].is_fixed => particles[n].inv_mass = Zero

\* a fixed particle created with particle_inv_mass = 1 has been through a step
C3_Witness ==
    /\ Returned
    /\ \E n \in Indices : particles[n].is_fixed /\ particles[n].inv_mass = Zero
    /\ \E n \in Indices : ~particles[n].is_fixed /\ particles[n].inv_mass # Zero

\* the solves the claim prescribes for one step, in order
RECURSIVE SpringOps(_, _, _)
SpringOps(b, n, m) == IF n >= m THEN <<>> ELSE <<<<"spring", b, n>>>> \o SpringOps(b, n + 1, m)
RECURSIVE BodyOps(_)
BodyOps(b) ==
    IF b >= Len(soft_bodies) THEN <<>>
    ELSE SpringOps(b, 0, Len(soft_bodies[b + 1].springs))
         \o (IF soft_bodies[b + 1].shape_constraint # None THEN <<<<"shape", b>>>> ELSE <<>>)
         \o BodyOps(b + 1)
RECURSIVE PairRow(_, _, _)
PairRow(i, j, n) == IF j >= n THEN <<>> ELSE <<<<"pair", i, j>>>> \o PairRow(i, j + 1, n)
RECURSIVE PairOps(_, _)
PairOps(i, n) == IF i >= n THEN <<>> ELSE PairRow(i, i + 1, n) \o PairOps(i + 1, n)
RECURSIVE Sweeps(_)
Sweeps(n) ==
    IF n = 0 THEN <<>>
    ELSE BodyOps(0) \o PairOps(0, Len(particles)) \o <<<<"clamp">>>> \o Sweeps(n - 1)
ExpectedLog == <<<<"integrate">>>> \o Sweeps(config.solver_iterations) \o <<<<"velocity">>>>

IsPrefix(a, b) == Len(a) <= Len(b) /\ \A i \in 1..Len(a) : a[i] = b[i]

\* the running step() is at a place of its loops where its next operation
\* is defined
StepRuns ==
    /\ pc \in {"springs", "shape", "collide", "clamp", "velocity"}
    /\ pc \in {"springs", "shape"} => body < Len(soft_bodies)
    /\ pc = "springs" => k < Len(soft_bodies[body + 1].springs)
    /\ pc = "collide" => pair[1] < pair[2] /\ pair[2] < Len(particles)
    /\ pc # "velocity" => iter < config.solver_iterations

\* C4: a step integrates, then runs exactly solver_iterations sweeps, then
\* reconstructs velocities and returns; each sweep visits the bodies in
\* insertion order (springs in list order, then the shape constraint if
\* present), then runs one collision pass, then the boundary clamp.  A
\* running step has done a proper prefix of that list and can go on.
C4_PhaseOrder ==
    /\ pc # "idle" => /\ IsPrefix(log, ExpectedLog)
                      /\ Len(log) < Len(ExpectedLog)
                      /\ StepRuns
    /\ Returned => log = ExpectedLog

\* a step of two sweeps over two bodies, with springs, a shape constraint and
\* colliding pairs, has returned
C4_Witness ==
    /\ Returned
    /\ config.solver_iterations = 2
    /\ Len(soft_bodies) = 2
    /\ \E i, j \in 1..Len(log) : i < j /\ log[i] = <<"shape", 1>> /\ log[j] = <<"spring", 0, 0>>
    /\ \E i \in 1..Len(log) : log[i] = <<"pair", 0, 1>>

\* C5: the integration loop gives every non-fixed particle vel + gravity*dt as
\* vel, its entry pos as prev_pos and pos + (new vel)*dt as pos, and leaves
\* pos, prev_pos and vel of every fixed particle unchanged.
C5_Integration ==
    [][ Integrating =>
          \A n \in Indices :
             LET p == particles[n]
                 q == particles'[n]
                 v == VAdd(p.vel, VScale(config.gravity, dt'))
             IN  IF p.is_fixed
                 THEN q.pos = p.pos /\ q.prev_pos = p.prev_pos /\ q.vel = p.vel
                 ELSE q.vel = v /\ q.prev_pos = p.pos
                      /\ q.pos = VAdd(p.pos, VScale(v, dt')) ]_vars

\* right after the integration loop: a non-fixed particle that entered with a
\* stale prev_pos and a non-zero vel, and a fixed one with a non-zero vel
C5_Witness ==
    /\ pc # "idle" /\ log = <<<<"integrate">>>>
    /\ \E n \in Indices : /\ ~entry[n].is_fixed
                          /\ entry[n].prev_pos # entry[n].pos
                          /\ entry[n].vel # VZero
                          /\ particles[n].prev_pos = entry[n].pos
                          /\ particles[n].pos # entry[n].pos
    /\ \E n \in Indices : entry[n].is_fixed /\ particles[n].vel # VZero

BodiesOf(i) ==
    {b \in 1..Len(soft_bodies) :
        \E m \in 1..Len(soft_bodies[b].particle_indices) :
            soft_bodies[b].particle_indices[m] = i}

\* C7: a collision pass examines every pair i < j of the store, whatever the
\* bodies; a pair with squared distance below (r_i + r_j)^2 and total inverse
\* mass above epsilon moves i by +n*(depth/total)*w_i and j by -n*(depth/total)*w_j,
\* n the normalized pos_i - pos_j and depth = r_i + r_j - dist; a pair with
\* total inverse mass zero is not moved; no third particle is touched.
C7_CollisionPass ==
    [][ pc = "collide" =>
          LET i == pair[1] + 1
              j == pair[2] + 1
              p1 == particles[i]
              p2 == particles[j]
              diff == VSub(p1.pos, p2.pos)
              r == Add(p1.radius, p2.radius)
              total == Add(p1.inv_mass, p2.inv_mass)
              depth == Sub(r, length(diff))
              n == normalize(diff)
              np == (Len(particles) * (Len(particles) - 1)) \div 2
          IN  /\ pair[1] < pair[2] /\ pair[2] < Len(particles)
              /\ (Lt(length_squared(diff), Mul(r, r)) /\ Gt(total, EPSILON)) =>
                    /\ particles'[i].pos =
                          VAdd(p1.pos, VScale(VScale(n, Div(depth, total)), p1.inv_mass))
                    /\ particles'[j].pos =
                          VSub(p2.pos, VScale(VScale(n, Div(depth, total)), p2.inv_mass))
              /\ total = Zero => particles'[i] = p1 /\ particles'[j] = p2
              /\ \A m \in Indices \ {i, j} : particles'[m] = particles[m]
              /\ pc' # "collide" =>
                    SubSeq(log', Len(log') - np + 1, Len(log')) = PairOps(0, Len(particles))
      ]_vars

\* the latest operation was the collision of a pair of particles of two
\* different bodies, with unequal non-zero inverse masses, and moved both
C7_Witness ==
    /\ Len(log) > 0
    /\ \E i, j \in 0..(Len(particles) - 1) :
          /\ log[Len(log)] = <<"pair", i, j>>
          /\ BodiesOf(i) \cap BodiesOf(j) = {}
          /\ particles[i + 1].inv_mass # Zero
          /\ particles[j + 1].inv_mass # Zero
          /\ particles[i + 1].inv_mass # particles[j + 1].inv_mass
          /\ particles[i + 1].pos # pre[i + 1].pos
          /\ particles[j + 1].pos # pre[j + 1].pos

\* distance between the two particles of a store of two
Separation(P) == length(VSub(P[1].pos, P[2].pos))

\* C8: two non-fixed particles that start overlapping along one axis: with
\* every collision pass their distance does not decrease, and it never
\* exceeds r1 + r2.
C8_CollisionConvergence ==
    LET r == Add(particles[1].radius, particles[2].radius)
    IN  /\ Le(Separation(particles), r)
        /\ calls > 0 => Le(Separation(pre), Separation(particles))

\* after two passes a pair with unequal radii and inverse masses has been
\* pushed from an overlap to a distance of exactly r1 + r2
C8_Witness ==
    /\ calls >= 2
    /\ particles[1].radius # particles[2].radius
    /\ particles[1].inv_mass # particles[2].inv_mass
    /\ Lt(Zero, Separation(entry))
    /\ Lt(Separation(entry), Separation(particles))
    /\ Separation(particles) = Add(particles[1].radius, particles[2].radius)

\* the group is where one rotation and one translation take the positions
\* it was built at
RigidImage(P) ==
    \E cs \in Rotations, t \in Translations :
        \A n \in 1..Len(P) : P[n].pos = Moved(entry, cs, t)[n].pos

\* C9: whatever the inverse masses and the stiffness, solve on a group whose
\* particles are the construction-time positions under one common rotation
\* and translation leaves every position unchanged.
C9_RigidInvariance ==
    (last = "shape_solve" /\ RigidImage(pre)) =>
        \A n \in Indices : particles[n].pos = pre[n].pos

det(m) == cross(m.c1, m.c2)

\* what counts as equal for a rotation computed with a rounded square root
RotTolerance == <<1, 16>>
Near(a, b) == Le(Sub(a, b), RotTolerance) /\ Le(Sub(b, a), RotTolerance)

\* C10: for every matrix A with a non-zero determinant, polar_decomposition(A)
\* has orthogonal columns of length 1 and determinant +1.
C10_RotationExtraction ==
    (ret # None /\ det(arg[1]) # Zero) =>
        LET R == ret[1]
        IN  /\ Near(dot(R.c1, R.c2), Zero)
            /\ Near(length_squared(R.c1), One)
            /\ Near(length_squared(R.c2), One)
            /\ Near(det(R), One)

\* the sums of solve over the first n indexed particles of sc, every one of
\* them counted when all holds and the fixed ones left out otherwise
RECURSIVE MassSum(_, _, _, _)
MassSum(sc, P, n, all) ==
    IF n = 0 THEN Zero
    ELSE IF all \/ ~At(P, sc.particle_indices[n]).is_fixed
    THEN Add(MassSum(sc, P, n - 1, all), mass_of(At(P, sc.particle_indices[n])))
    ELSE MassSum(sc, P, n - 1, all)
RECURSIVE MomentSum(_, _, _, _)
MomentSum(sc, P, n, all) ==
    IF n = 0 THEN VZero
    ELSE IF all \/ ~At(P, sc.particle_indices[n]).is_fixed
    THEN VAdd(MomentSum(sc, P, n - 1, all),
              VScale(At(P, sc.particle_indices[n]).pos,
                     mass_of(At(P, sc.particle_indices[n]))))
    ELSE MomentSum(sc, P, n - 1, all)
RECURSIVE CovSum(_, _, _, _, _)
CovSum(sc, com, P, n, all) ==
    IF n = 0 THEN MZero
    ELSE IF all \/ ~At(P, sc.particle_indices[n]).is_fixed
    THEN LET m == CovSum(sc, com, P, n - 1, all)
             p == VSub(At(P, sc.particle_indices[n]).pos, com)
             q == sc.initial_shape[n]
         IN  Mat2(Vec2(Add(m.c1.x, Mul(p.x, q.x)), Add(m.c1.y, Mul(p.y, q.x))),
                  Vec2(Add(m.c2.x, Mul(p.x, q.y)), Add(m.c2.y, Mul(p.y, q.y))))
    ELSE CovSum(sc, com, P, n - 1, all)

\* the mass-weighted centroid of those particles, prev when they have no mass
CentroidOf(sc, P, all, prev) ==
    LET n == Len(sc.particle_indices)
    IN  IF Gt(MassSum(sc, P, n, all), EPSILON)
        THEN VScale(MomentSum(sc, P, n, all), Div(One, MassSum(sc, P, n, all)))
        ELSE prev

\* C11: ShapeMatchingConstraint.solve recomputes center_of_mass as the
\* mass-weighted centroid of all indexed particles, fixed ones included,
\* accumulates Apq over all indexed particles, fixed ones included, and then
\* moves each non-fixed particle by (center_of_mass + R*initial_offset - pos) *
\* stiffness, R the rotation of that Apq, and no fixed particle.
C11_FixedContribute ==
    [][ last' = "shape_solve" =>
          LET sc == arg[1]
              n == Len(sc.particle_indices)
              com == CentroidOf(sc, particles, TRUE, sc.center_of_mass)
              R == polar_decomposition(CovSum(sc, com, particles, n, TRUE))
          IN  /\ arg'[1].center_of_mass = com
              /\ \A m \in 1..n :
                    LET p == At(particles, sc.particle_indices[m])
                        q == At(particles', sc.particle_indices[m])
                        goal == VAdd(com, mul_vec(R, sc.initial_shape[m]))
                    IN  IF p.is_fixed THEN q.pos = p.pos
                        ELSE q.pos = VAdd(p.pos, VScale(VSub(goal, p.pos), sc.stiffness))
      ]_vars

\* a solve has run on a group with a fixed particle whose offsets change the
\* rotation: without them in Apq the rotation would be another one; the
\* fixed particle stayed and a non-fixed one was moved
C11_Witness ==
    /\ last = "shape_solve"
    /\ LET sc == arg[1]
           n == Len(sc.particle_indices)
           com == sc.center_of_mass
       IN  /\ \E m \in 1..n : /\ pre[m].is_fixed
                              /\ particles[m].pos = pre[m].pos
           /\ \E m \in 1..n : ~pre[m].is_fixed /\ particles[m].pos # pre[m].pos
           /\ polar_decomposition(CovSum(sc, com, pre, n, TRUE))
                 # polar_decomposition(CovSum(sc, com, pre, n, FALSE))

\* the scenario has run its ScenarioSteps calls of step
ScenarioDone == pc = "idle" /\ steps = ScenarioSteps /\ Len(particles) = 2

\* y of the floor for particle p: H - radius
Floor(p) == Sub(config.bounds[1].max.y, p.radius)

SpringSpan(s, P) == length(VSub(At(P, s.p1_index).pos, At(P, s.p2_index).pos))

\* C13: a spring made by add_soft_body has as rest_length the distance
\* between its two particles at that moment, and no step, overwrite or later
\* add_soft_body changes the rest_length of a spring that exists.
C13_RestLength ==
    [][ /\ \A b \in 1..Len(soft_bodies') :
              \A n \in 1..Len(soft_bodies'[b].springs) :
                 IF b <= Len(soft_bodies)
                 THEN soft_bodies'[b].springs[n].rest_length
                         = soft_bodies[b].springs[n].rest_length
                 ELSE soft_bodies'[b].springs[n].rest_length
                         = SpringSpan(soft_bodies'[b].springs[n], particles')
        /\ Len(soft_bodies') >= Len(soft_bodies) ]_vars

\* a second body has just been added after a step and an overwrite; a spring
\* of the first body is no longer at its rest length, a spring of the new
\* body is
C13_Witness ==
    /\ last = "add_soft_body" /\ steps >= 1 /\ overwrites >= 1
    /\ Len(soft_bodies) = 2
    /\ \E n \in 1..Len(soft_bodies[1].springs) :
          /\ Gt(soft_bodies[1].springs[n].rest_length, Zero)
          /\ SpringSpan(soft_bodies[1].springs[n], particles)
                # soft_bodies[1].springs[n].rest_length
    /\ \E n \in 1..Len(soft_bodies[2].springs) :
          /\ Gt(soft_bodies[2].springs[n].rest_length, Zero)
          /\ SpringSpan(soft_bodies[2].springs[n], particles)
                = soft_bodies[2].springs[n].rest_length

\* C14: Spring.solve called when the distance between its two particles
\* equals rest_length leaves both positions (the whole store) unchanged,
\* whatever the stiffness and the inverse masses.
C14_NoOpAtRest ==
    [][ (last' = "spring_solve" /\ SpringSpan(arg[1], particles) = arg[1].rest_length)
            => particles' = particles ]_vars

\* solve has run on a spring at its rest length, which is not zero, after
\* its particles were put elsewhere; the two inverse masses differ and are
\* not zero
C14_Witness ==
    /\ last = "spring_solve" /\ calls = 2
    /\ pre # entry
    /\ SpringSpan(arg[1], pre) = arg[1].rest_length
    /\ Gt(arg[1].rest_length, Zero)
    /\ pre[1].inv_mass # pre[2].inv_mass
    /\ Gt(pre[1].inv_mass, Zero) /\ Gt(pre[2].inv_mass, Zero)
    /\ arg[1].stiffness # One
    /\ particles = pre

\* this transition is the call add_soft_body(cfg)
Adds(cfg) == last' = "add_soft_body" /\ AddSoftBody(cfg)

\* C15: add_soft_body(config) appends exactly rows*cols particles to the
\* store and leaves the others as they are; each new one has radius =
\* particle_radius, vel = (0,0) and prev_pos = pos, and is_fixed = TRUE with
\* inv_mass = 0 when config.is_fixed, whatever particle_inv_mass is, and
\* is_fixed = FALSE with inv_mass = particle_inv_mass otherwise.
C15_NewParticles ==
    [][ \A cfg \in BodyConfigs :
          Adds(cfg) =>
            /\ Len(particles') = Len(particles) + cfg.rows * cfg.cols
            /\ SubSeq(particles', 1, Len(particles)) = particles
            /\ \A n \in (Len(particles) + 1)..Len(particles') :
                  LET p == particles'[n]
                  IN  /\ p.radius = cfg.particle_radius
                      /\ p.vel = VZero
                      /\ p.prev_pos = p.pos
                      /\ p.is_fixed = cfg.is_fixed
                      /\ p.inv_mass = IF cfg.is_fixed THEN Zero
                                      ELSE cfg.particle_inv_mass ]_vars

\* a fixed body of two particles has just been added, from a config whose
\* particle_inv_mass is 1, to a store that a step had already moved
C15_Witness ==
    /\ last = "add_soft_body" /\ steps >= 1
    /\ Len(pre) >= 1 /\ Len(particles) = Len(pre) + 2
    /\ pre[1].vel # VZero
    /\ \A n \in (Len(pre) + 1)..Len(particles) :
          /\ particles[n].is_fixed /\ particles[n].inv_mass = Zero
          /\ particles[n].radius = One
    /\ \E cfg \in BodyConfigs :
          /\ cfg.is_fixed /\ cfg.particle_inv_mass = One
          /\ soft_bodies[Len(soft_bodies)] = add_soft_body(cfg, pre).body

\* the particle of cell (i, j) of a rows x cols grid appended to a store of
\* n0 particles
Cell(P, n0, cfg, i, j) == P[n0 + i * cfg.cols + j + 1]

\* the midpoint of the smallest and the largest of a set of numbers
Smallest(S) == CHOOSE a \in S : \A b \in S : Le(a, b)
Largest(S) == CHOOSE a \in S : \A b \in S : Le(b, a)
Midpoint(S) == Mul(Add(Smallest(S), Largest(S)), Half)

\* C16: the particles add_soft_body creates form a rows x cols grid, row i
\* at one y and column j at one x, with equal steps between neighbouring
\* columns and between neighbouring rows, whose midpoint on each axis is
\* config.center, for every rows >= 1 and cols >= 1.
C16_GridCentered ==
    [][ \A cfg \in BodyConfigs :
          Adds(cfg) =>
            LET n0 == Len(particles)
                at(i, j) == Cell(particles', n0, cfg, i, j).pos
                rows == 0..(cfg.rows - 1)
                cols == 0..(cfg.cols - 1)
            IN  /\ \A i \in rows, j \in cols :
                      at(i, j).x = at(0, j).x /\ at(i, j).y = at(i, 0).y
                /\ \A j \in cols : j >= 1 =>
                      Sub(at(0, j).x, at(0, j - 1).x) = Sub(at(0, 1).x, at(0, 0).x)
                /\ \A i \in rows : i >= 1 =>
                      Sub(at(i, 0).y, at(i - 1, 0).y) = Sub(at(1, 0).y, at(0, 0).y)
                /\ Midpoint({at(0, j).x : j \in cols}) = cfg.center.x
                /\ Midpoint({at(i, 0).y : i \in rows}) = cfg.center.y ]_vars

\* the index pairs <<p1_index, p2_index>> of a list of springs
Ends(springs) == {<<springs[n].p1_index, springs[n].p2_index>> : n \in 1..Len(springs)}

\* the pairs of the 4-connected grid whose first cell has index n0: each
\* cell with its right neighbour and with its bottom neighbour
GridEdges(n0, rows, cols) ==
    {<<n0 + i * cols + j, n0 + i * cols + j + 1>> :
        i \in 0..(rows - 1), j \in 0..(cols - 2)}
    \cup {<<n0 + i * cols + j, n0 + (i + 1) * cols + j>> :
        i \in 0..(rows - 2), j \in 0..(cols - 1)}

\* C17: with config.stiffness > 0 the body made by add_soft_body has one
\* spring from each cell to its right neighbour and one to its bottom
\* neighbour where there is one, and no other spring:
\* rows*(cols-1) + (rows-1)*cols springs; with stiffness 0 it has none.
C17_GridSprings ==
    [][ \A cfg \in BodyConfigs :
          Adds(cfg) =>
            LET springs == soft_bodies'[Len(soft_bodies')].springs
            IN  IF Gt(cfg.stiffness, Zero)
                THEN /\ Ends(springs) = GridEdges(Len(particles), cfg.rows, cfg.cols)
                     /\ Len(springs) = cfg.rows * (cfg.cols - 1)
                                          + (cfg.rows - 1) * cfg.cols
                ELSE springs = <<>> ]_vars

\* the body just added is a 2 x 2 grid with its four springs, none of them
\* a diagonal
C17_Witness ==
    /\ last = "add_soft_body"
    /\ Len(particles) = Len(pre) + 4
    /\ Len(soft_bodies[Len(soft_bodies)].springs) = 4
    /\ Ends(soft_bodies[Len(soft_bodies)].springs)
          = {<<0, 1>>, <<0, 2>>, <<1, 3>>, <<2, 3>>}

\* C18: the body made by add_soft_body has a shape constraint if and only if
\* config.shape_stiffness > 0, and the particle_indices of that constraint are
\* the particle_indices of the body, in the same order.
C18_ShapeConstraint ==
    [][ \A cfg \in BodyConfigs :
          Adds(cfg) =>
            LET b == soft_bodies'[Len(soft_bodies')]
            IN  /\ (b.shape_constraint # None) <=> Gt(cfg.shape_stiffness, Zero)
                /\ b.shape_constraint # None =>
                      b.shape_constraint[1].particle_indices = b.particle_indices ]_vars

\* two bodies have been added: one with springs and no shape constraint, one
\* without springs whose shape constraint covers its particles
C18_Witness ==
    /\ last = "add_soft_body"
    /\ Len(soft_bodies) = 2
    /\ \E a, b \in 1..2 :
          /\ soft_bodies[a].shape_constraint = None
          /\ Len(soft_bodies[a].springs) > 0
          /\ soft_bodies[b].shape_constraint # None
          /\ soft_bodies[b].springs = <<>>
          /\ soft_bodies[b].shape_constraint[1].particle_indices
                = soft_bodies[b].particle_indices
          /\ Len(soft_bodies[b].particle_indices) >= 1

\* the structure of a spring, of a shape constraint and of a body: what is
\* left of each without the cached center_of_mass
SpringFrame(s) ==
    <<s.p1_index, s.p2_index, s.stiffness, s.rest_length>>
ShapeFrame(o) ==
    IF o = None THEN None
    ELSE <<o[1].particle_indices, o[1].stiffness, o[1].initial_shape>>
BodyFrame(b) ==
    <<b.particle_indices,
      [n \in 1..Len(b.springs) |-> SpringFrame(b.springs[n])],
      ShapeFrame(b.shape_constraint)>>
ParticleFrame(p) == <<p.is_fixed, p.inv_mass, p.radius>>

\* C19: no transition of step, no add_soft_body and no overwrite changes
\* the structure of a body that exists (particle_indices, the springs with
\* their indices and stiffness, the presence, indices, stiffness and
\* initial_shape of the shape constraint) or the is_fixed, inv_mass and radius
\* of a particle that exists, and the numbers of particles and of bodies do
\* not decrease.
C19_StructureFrame ==
    [][ /\ Len(soft_bodies') >= Len(soft_bodies)
        /\ Len(particles') >= Len(particles)
        /\ \A b \in 1..Len(soft_bodies) :
              BodyFrame(soft_bodies'[b]) = BodyFrame(soft_bodies[b])
        /\ \A n \in Indices :
              ParticleFrame(particles'[n]) = ParticleFrame(particles[n]) ]_vars

\* two steps have run on a body with springs and a shape constraint: its
\* particles have moved and the cached center_of_mass with them, while the
\* constraint still holds the offsets of the grid it was built on
C19_Witness ==
    /\ Returned /\ steps = 2
    /\ Len(soft_bodies) >= 1
    /\ Len(soft_bodies[1].springs) = 4
    /\ soft_bodies[1].shape_constraint # None
    /\ soft_bodies[1].shape_constraint[1].center_of_mass # V(3, 3)
    /\ soft_bodies[1].shape_constraint[1].initial_shape
          = <<V(-1, -1), V(1, -1), V(-1, 1), V(1, 1)>>
    /\ particles[1].pos # V(2, 2)

\* values an overwrite may have left in prev_pos
StalePositions == {V(2, 2), V(2, 4), V(-1, 9), V(0, 0)}

\* C20: a step called after an overwrite of pos, vel and prev_pos starts from
\* what the particles hold: a non-fixed particle is integrated from the
\* overwritten pos and vel, its prev_pos becomes its pos at entry, and the
\* store after the integration loop - with it the rest of the step - is the
\* same whatever prev_pos that particle held at entry.
C20_OverwriteTolerated ==
    [][ Integrating =>
          \A n \in Indices : ~particles[n].is_fixed =>
             /\ particles'[n].prev_pos = particles[n].pos
             /\ particles'[n].vel = VAdd(particles[n].vel, VScale(config.gravity, dt'))
             /\ particles'[n].pos =
                   VAdd(particles[n].pos, VScale(particles'[n].vel, dt'))
             /\ \A w \in StalePositions :
                   Integrate([particles EXCEPT ![n].prev_pos = w],
                             config.gravity, dt') = particles' ]_vars

\* a step has returned that was called on a non-fixed particle whose pos,
\* vel and prev_pos an overwrite had set, prev_pos away from pos
C20_Witness ==
    /\ Returned /\ overwrites >= 1
    /\ \E n \in Indices :
          /\ ~entry[n].is_fixed
          /\ entry[n].pos = V(-1, 9) /\ entry[n].vel = V(1, 0)
          /\ entry[n].prev_pos = V(2, 2)
          /\ particles[n].prev_pos = entry[n].pos
          /\ particles[n].pos # entry[n].pos

C22_Immovable ==
    Returned =>
        \A n \in Indices :
            particles[n].inv_mass = Zero => particles[n].pos = entry[n].pos

\* what the spring s asks of the slice P: diff * ((dist - rest_length)/dist)
\* * (stiffness/total_inv_mass), with diff = pos_p1 - pos_p2
Correction(s, P) ==
    LET diff == VSub(P[s.p1_index + 1].pos, P[s.p2_index + 1].pos)
    IN  VScale(VScale(diff, Div(Sub(length(diff), s.rest_length), length(diff))),
               Div(s.stiffness,
                   Add(P[s.p1_index + 1].inv_mass, P[s.p2_index + 1].inv_mass)))
\* both guards of solve pass
SpringActs(s, P) ==
    /\ ~Lt(Add(P[s.p1_index + 1].inv_mass, P[s.p2_index + 1].inv_mass), EPSILON)
    /\ ~Lt(length(VSub(P[s.p1_index + 1].pos, P[s.p2_index + 1].pos)), EPSILON)

\* C23: when both guards pass, Spring.solve subtracts correction * inv_mass_p1
\* from the pos of particle p1_index, adds correction * inv_mass_p2 to the pos
\* of particle p2_index and changes nothing else in the slice, with
\* correction = diff * ((dist - rest_length)/dist) * (stiffness/total_inv_mass)
\* and diff = pos_p1 - pos_p2, whether p1_index < p2_index or p1_index > p2_index.
C23_SpringCorrection ==
    [][ (last' = "spring_solve" /\ SpringActs(arg[1], particles)) =>
            particles' =
                [n \in 1..Len(particles) |->
                    IF n = arg[1].p1_index + 1
                    THEN [particles[n] EXCEPT !.pos =
                             VSub(particles[n].pos,
                                  VScale(Correction(arg[1], particles),
                                         particles[n].inv_mass))]
                    ELSE IF n = arg[1].p2_index + 1
                    THEN [particles[n] EXCEPT !.pos =
                             VAdd(particles[n].pos,
                                  VScale(Correction(arg[1], particles),
                                         particles[n].inv_mass))]
                    ELSE particles[n]] ]_vars

\* solve has moved both ends of a spring with p1_index > p2_index, by
\* different amounts, in a slice with a third particle
C23_Witness ==
    /\ last = "spring_solve"
    /\ arg[1].p1_index > arg[1].p2_index
    /\ SpringActs(arg[1], pre)
    /\ Len(particles) = 3
    /\ particles[1].pos # pre[1].pos
    /\ particles[2].pos # pre[2].pos
    /\ pre[1].inv_mass # pre[2].inv_mass
    /\ arg[1].stiffness # One

\* the total inverse mass of the particles i and j (0-based) of P, and
\* whether they are at the same place
PairInvMass(P, i, j) == Add(At(P, i).inv_mass, At(P, j).inv_mass)
Coincident(P, i, j) == At(P, i).pos = At(P, j).pos
\* the spring about to be solved
SpringNow == soft_bodies[body + 1].springs[k + 1]
\* solve on s returns at one of its two guards
SpringSkips(s, P) ==
    \/ Lt(PairInvMass(P, s.p1_index, s.p2_index), EPSILON)
    \/ Lt(length(VSub(At(P, s.p1_index).pos, At(P, s.p2_index).pos)), EPSILON)
\* the step goes on after the spring k of the body: to the next spring, or
\* to the shape constraint of the body
NextConstraint ==
    \/ pc' = "springs" /\ body' = body /\ k' = k + 1
    \/ pc' = "shape" /\ body' = body
\* the step goes on after the pair: to the next pair, or to the clamp
NextCheck ==
    \/ pc' = "collide" /\ pair' = NextPair(pair[1], pair[2], Len(particles))
    \/ pc' = "clamp"

\* C24: a Spring.solve whose particles have a total inverse mass below
\* epsilon or are closer than epsilon, and the collision check of two
\* particles at exactly the same place, change no particle, and the step
\* goes on with the next spring, constraint or pair.
C24_SkipAndContinue ==
    [][ /\ (pc = "springs" /\ SpringSkips(SpringNow, particles)) =>
              (particles' = particles /\ NextConstraint)
        /\ (pc = "collide" /\ Coincident(particles, pair[1], pair[2])) =>
              (particles' = particles /\ NextCheck) ]_vars

\* the last spring solved had a total inverse mass of 0
MasslessSpringSkipped ==
    /\ pc \in {"springs", "shape"} /\ Len(log) > 1
    /\ log[Len(log)][1] = "spring"
    /\ LET s == soft_bodies[log[Len(log)][2] + 1].springs[log[Len(log)][3] + 1]
       IN  PairInvMass(pre, s.p1_index, s.p2_index) = Zero
    /\ particles = pre
\* the last spring solved had its ends at the same place
CoincidentSpringSkipped ==
    /\ pc \in {"springs", "shape"} /\ Len(log) > 1
    /\ log[Len(log)][1] = "spring"
    /\ LET s == soft_bodies[log[Len(log)][2] + 1].springs[log[Len(log)][3] + 1]
       IN  /\ Gt(PairInvMass(pre, s.p1_index, s.p2_index), Zero)
           /\ Coincident(pre, s.p1_index, s.p2_index)
    /\ particles = pre
\* the last pair checked was at the same place
CoincidentPairSkipped ==
    /\ pc \in {"collide", "clamp"} /\ Len(log) > 1
    /\ log[Len(log)][1] = "pair"
    /\ Coincident(pre, log[Len(log)][2], log[Len(log)][3])
    /\ Gt(PairInvMass(pre, log[Len(log)][2], log[Len(log)][3]), Zero)
    /\ Gt(Add(At(pre, log[Len(log)][2]).radius, At(pre, log[Len(log)][3]).radius), Zero)
    /\ particles = pre
\* a pair at the same place has just been checked, in a step that solved a
\* spring whose ends are at the same place, and the step goes on
C24_Witness ==
    /\ CoincidentPairSkipped
    /\ \E n \in 1..Len(log) :
          /\ log[n][1] = "spring"
          /\ LET s == soft_bodies[log[n][2] + 1].springs[log[n][3] + 1]
             IN  Coincident(pre, s.p1_index, s.p2_index)

\* C25: a ShapeMatchingConstraint.solve on particles whose total mass is
\* below epsilon (every inv_mass is 0) leaves the cached center_of_mass at the
\* value it had before the call, wherever the particles are.
C25_CentroidKept ==
    [][ ( /\ last' = "shape_solve"
          /\ Lt(MassSum(arg[1], particles, Len(arg[1].particle_indices), TRUE), EPSILON) )
            => arg'[1].center_of_mass = arg[1].center_of_mass ]_vars

\* solve has run on a group that was built with mass, then lost it and was
\* moved: the cached centroid is that of the construction, not the origin
C25_Witness ==
    /\ last = "shape_solve" /\ calls = 2
    /\ \A n \in Indices : pre[n].inv_mass = Zero
    /\ \E n \in Indices : pre[n].pos # entry[n].pos
    /\ arg[1].center_of_mass # VZero
    /\ arg[1].center_of_mass =
          CentroidOf(arg[1], entry, TRUE, VZero)

\* the auxiliary vectors x and y of polar_decomposition(m)
AuxX(m) == Vec2(Add(m.c1.x, m.c2.y), Sub(m.c1.y, m.c2.x))
AuxY(m) == Vec2(Sub(m.c1.x, m.c2.y), Add(m.c1.y, m.c2.x))

\* C26: polar_decomposition returns the identity matrix whenever both
\* auxiliary vectors x = (c1.x + c2.y, c1.y - c2.x) and y = (c1.x - c2.y,
\* c1.y + c2.x) are shorter than epsilon, so no length below epsilon is
\* divided by.
C26_IdentityNearZero ==
    ( /\ ret # None
      /\ Lt(length(AuxX(arg[1])), EPSILON)
      /\ Lt(length(AuxY(arg[1])), EPSILON) ) => ret[1] = MIdentity

\* the number of particles of the first b bodies
RECURSIVE Owned(_)
Owned(b) == IF b = 0 THEN 0 ELSE Owned(b - 1) + Len(soft_bodies[b].particle_indices)
\* the set of indices of the body b
Range(b) == {soft_bodies[b].particle_indices[m] :
                m \in 1..Len(soft_bodies[b].particle_indices)}

\* C27: in every state reached by add_soft_body and step calls, every index
\* held by a body, a spring or a shape constraint is below particles.len();
\* the particle_indices of the bodies are consecutive ranges in the order the
\* bodies were added, disjoint and covering the store; every spring has
\* p1_index < p2_index and both ends in its own body.
C27_IndexWellFormed ==
    /\ Owned(Len(soft_bodies)) = Len(particles)
    /\ \A b \in 1..Len(soft_bodies) :
          /\ soft_bodies[b].particle_indices =
                [m \in 1..Len(soft_bodies[b].particle_indices) |-> Owned(b - 1) + m - 1]
          /\ \A i \in Range(b) : i < Len(particles)
          /\ \A c \in 1..Len(soft_bodies) : c # b => Range(b) \cap Range(c) = {}
          /\ \A n \in 1..Len(soft_bodies[b].springs) :
                LET s == soft_bodies[b].springs[n]
                IN  /\ s.p1_index < s.p2_index
                    /\ s.p2_index < Len(particles)
                    /\ s.p1_index \in Range(b)
                    /\ s.p2_index \in Range(b)
          /\ soft_bodies[b].shape_constraint # None =>
                \A m \in 1..Len(soft_bodies[b].shape_constraint[1].particle_indices) :
                    soft_bodies[b].shape_constraint[1].particle_indices[m] < Len(particles)

\* two bodies have been through a step; the second one holds the indices 2
\* and 3, a spring between them and a shape constraint
C27_Witness ==
    /\ Returned
    /\ Len(soft_bodies) = 2
    /\ soft_bodies[1].particle_indices = <<0, 1>>
    /\ soft_bodies[2].particle_indices = <<2, 3>>
    /\ Len(soft_bodies[2].springs) = 1
    /\ soft_bodies[2].springs[1].p1_index = 2
    /\ soft_bodies[2].springs[1].p2_index = 3
    /\ soft_bodies[2].shape_constraint # None
    /\ soft_bodies[2].shape_constraint[1].particle_indices = <<2, 3>>

\* one axis of a particle after a step: was is its coordinate at entry and
\* now the one at return, [lo, hi] = [min + radius, max - radius]
ClampedAxis(fixed, was, now, lo, hi) ==
    IF Lt(hi, lo) THEN now = hi
    ELSE fixed => /\ Lt(was, lo) => now = lo
                  /\ Gt(was, hi) => now = hi

\* C28: the clamp reads neither is_fixed nor inv_mass. With bounds set and
\* solver_iterations >= 1, a fixed particle that enters step outside
\* [min + radius, max - radius] on an axis leaves it on the nearest end of
\* that interval, and on an axis with max - radius < min + radius every
\* particle leaves step at max - radius.
C28_ClampIgnoresFixed ==
    (Returned /\ config.bounds # None /\ config.solver_iterations >= 1) =>
        \A n \in Indices :
            LET p == particles[n]
                b == config.bounds[1]
            IN  /\ ClampedAxis(p.is_fixed, entry[n].pos.x, p.pos.x,
                               Add(b.min.x, p.radius), Sub(b.max.x, p.radius))
                /\ ClampedAxis(p.is_fixed, entry[n].pos.y, p.pos.y,
                               Add(b.min.y, p.radius), Sub(b.max.y, p.radius))

\* a fixed particle, with inv_mass 0, entered a step above the box, which is
\* narrower than its diameter on the x axis: it left at max - radius on both
\* axes
C28_Witness ==
    /\ Returned /\ config.bounds # None /\ config.solver_iterations >= 1
    /\ \E n \in Indices :
          LET p == particles[n]
              b == config.bounds[1]
          IN  /\ p.is_fixed /\ p.inv_mass = Zero
              /\ Lt(Sub(b.max.x, p.radius), Add(b.min.x, p.radius))
              /\ ~Lt(Sub(b.max.y, p.radius), Add(b.min.y, p.radius))
              /\ Gt(entry[n].pos.y, Sub(b.max.y, p.radius))
              /\ p.pos = Vec2(Sub(b.max.x, p.radius), Sub(b.max.y, p.radius))
              /\ p.pos # entry[n].pos

\* pos_p1 - pos_p2 of the spring s in the store P, and its signed length
\* error dist - rest_length
SpringDiff(s, P) == VSub(At(P, s.p1_index).pos, At(P, s.p2_index).pos)
SpringError(s, P) == Sub(SpringSpan(s, P), s.rest_length)
\* 1 - stiffness * (dist - rest_length) / dist
SpringFactor(s, P) ==
    Sub(One, Mul(s.stiffness, Div(SpringError(s, P), SpringSpan(s, P))))
\* what rounding may add to a length
LengthTolerance == <<1, 16>>
Within(a, b) == Le(Sub(a, b), LengthTolerance) /\ Le(Sub(b, a), LengthTolerance)

WindowOf(s, n) == <<s[n], s[(n % Len(s)) + 1]>>
FewerOf(a, b) == IF a < b THEN a ELSE b

\* C30: circular_windows() on a slice of length n yields exactly n pairs, the
\* k-th being (s[k], s[(k+1) mod n]); an empty slice yields none; and once the
\* n-th pair has been returned every later next() returns None.
C30_CircularWindows ==
    LET s == arg[1].slice
    IN  /\ log = [n \in 1..FewerOf(calls, Len(s)) |-> WindowOf(s, n)]
        /\ calls >= 1 =>
              ret = Some(IF calls <= Len(s) THEN Some(WindowOf(s, calls)) ELSE None)

\* the slice [a, b, c] has given (a, b), (b, c), (c, a) and then None twice
C30_Witness ==
    /\ last = "next"
    /\ arg[1].slice = <<"a", "b", "c">>
    /\ calls = 5
    /\ log = << <<"a", "b">>, <<"b", "c">>, <<"c", "a">> >>
    /\ ret = Some(None)

\* a slice of one element has given the pair of that element with itself
SinglePair ==
    /\ last = "next" /\ calls = 1
    /\ arg[1].slice = <<"a">>
    /\ ret = Some(Some(<<"a", "a">>))

====
